---- MODULE Spec2Model ----
(***************************************************************************)
(* Discovery, rate-budgeting, scoring and clustering pipeline of           *)
(* AutoSocial.  Each part of the pipeline has its own specification over   *)
(* the variables it uses; the variables of the other parts stay at their   *)
(* initial values.  Times are milliseconds, as Date.now() gives them.      *)
(***************************************************************************)
EXTENDS Integers, Sequences, FiniteSets, TLC

VARIABLES
  \* ---- RedditProvider rate limiter (static state and the callers' frames)
  requestTimestamps,  \* RedditProvider.requestTimestamps
  lastRequestTime,    \* RedditProvider.lastRequestTime
  clock,              \* Date.now()
  pc,                 \* per task: where the task is inside checkRateLimit
  now,                \* per task: the local `now` of its checkRateLimit call
  wakeAt,             \* per task: when its pending timer / page fetch ends
  calls,              \* number of checkRateLimit calls started so far
  slowUsed,           \* number of slow page fetches so far
  pace,               \* time an ordinary page fetch of this run takes
  admitted,           \* history: times of the admitted requests (last 10 min)
  \* ---- RedditProvider.fetchMaxViralPosts (one invocation)
  fpc,                \* where the invocation is
  maxItems,           \* its argument
  pagesNeeded,        \* Math.ceil(targetItems / ITEMS_PER_REQUEST)
  page,               \* the loop variable
  after,              \* the cursor: 0 is null, c > 0 the token after page c
  allPosts,           \* per successful page: its cursor and transformed posts
  backoffTime,        \* the pending backoff delay (0: none)
  returned,           \* number of posts the invocation returned (-1: none)
  \* ---- the discovery trigger POST /api/trending/discover and the store
  trending_posts,     \* rows of table trending_posts
  wall,               \* Date.now() of the route handlers
  tpc,                \* per trigger: where its POST handler is
  fetched,            \* per trigger: the posts fetchTwitterTrends returned
  outcome,            \* per trigger: the kind of its last response
  triggers,           \* number of triggers that have arrived
  twitterRequests,    \* history: times of the requests sent to Twitter
  \* ---- the engagement scorers, applied to a pair of raw posts
  scorer,             \* "twitter" or "reddit"
  rawA, rawB,         \* the raw posts: rawB is rawA with one counter raised
  scoreA, scoreB,     \* their engagement_score (-1: not scored yet)
  \* ---- the trend clusterers
  posts,              \* the posts handed to the clusterer, in input order
  groups,             \* result of groupPostsByTrends: <<[key, posts]>>
  aiGroups,           \* result of groupPostsForAIAnalysis
  trendsDone, aiDone, \* whether each clusterer has run
  \* ---- the Reddit discovery route, run twice on one raw batch
  rawBatch,           \* per listing, the children Reddit returns
  ppc,                \* position of the handler: "idle", "fetched", "stored"
  passNo,             \* number of passes started
  redditTrends,       \* the posts fetchMultiRedditTrends returned
  accepted,           \* history: per pass, the platform_post_ids accepted
  reported,           \* history: per pass, the newPosts of the response
  \* ---- fetchMultiViralContent: one pass over a list of subreddits
  mpc,                \* "off", "loop" (in the for loop), "done" (returned),
                      \* "responded" (the route has answered)
  subredditIndex,     \* the loop variable i, counted from 1
  started,            \* history: the subreddits whose fetch was started
  failures,           \* history: [sub, kind, status] of the fetches that
                      \* threw ("thrown", status 0) or broke off on an HTTP
                      \* error status ("http")
  multiPosts,         \* allPosts.length of the pass
  routeSuccess,       \* the success field of the route's response, or "none"
  writesFailed,       \* history: every upsert of the route's store failed
  \* ---- storeTrendingPosts over successive discovery runs
  storeQueue,         \* the posts the running storeTrendingPosts has left
  storeRuns,          \* number of discovery runs started
  offered,            \* history: the <<platform, platform_post_id>> offered
  latestLikes,        \* history: per identity, the likes last offered
  \* ---- the responses of the two Twitter discovery routes
  hpc,                \* "idle" or "fetch" (awaiting fetchTwitterTrends)
  hroute,             \* route of the trigger in hand: "gated" or "plain"
  handled,            \* number of triggers received
  cause,              \* history: what decided the last result
  response,           \* the last response sent
  \* ---- analyzeTrends and the AI service (the enrichment collaborator)
  apc,                \* "off", "loop", "health", "analyze", "done"
  trendGroups,        \* Object.entries(trendGroups)
  groupIndex,         \* the entry the for loop is at
  analyses,           \* the TrendAnalysis built so far
  healthSeen,         \* history: per analysis, what /health did
  analyzeSeen,        \* history: per analysis, what /analyze-posts did
  \* ---- the backoff delays of one fetchMaxViralPosts invocation
  prevDelay,          \* history: the backoff delay before the last (0: none)
  lastDelay,          \* history: the last backoff delay applied (0: none)
  \* ---- calculateSentimentDistribution
  sentiments,         \* the sentiment column of the group's posts, in order
  sentiment_distribution, \* the result, or NoDistribution
  \* ---- the hashtags of a TrendAnalysis
  tagPosts,           \* the posts of the group
  tagsDone,           \* which of the two builders have run
  analysisHashtags,   \* hashtags of createTrendAnalysis' result
  aiAnalysisHashtags, \* hashtags of createAITrendAnalysis' result
  \* ---- the dashboard and its countdown
  lastDiscoveryTime,  \* the dashboard's state, -1 for null
  nextUpdateTime,     \* of the latest dashboard response, -1 for null
  timeLeft,           \* UpdateTimer's state
  timerAt             \* when updateTimer ran last, -1 before

rateVars == <<requestTimestamps, lastRequestTime, clock, pc, now, wakeAt,
              calls, slowUsed, pace, admitted>>

fetchVars == <<fpc, maxItems, pagesNeeded, page, after, allPosts,
               backoffTime, returned>>

gateVars == <<trending_posts, wall, tpc, fetched, outcome, triggers,
              twitterRequests>>

scoreVars == <<scorer, rawA, rawB, scoreA, scoreB>>

clusterVars == <<posts, groups, aiGroups, trendsDone, aiDone>>

pipeVars == <<rawBatch, ppc, passNo, redditTrends, accepted, reported>>

multiVars ==
  <<mpc, subredditIndex, started, failures, multiPosts, routeSuccess,
    writesFailed>>

storeVars == <<storeQueue, storeRuns, offered, latestLikes>>
respVars == <<hpc, hroute, handled, cause, response>>
aiVars == <<apc, trendGroups, groupIndex, analyses, healthSeen, analyzeSeen>>
backoffVars == <<prevDelay, lastDelay>>
sentVars == <<sentiments, sentiment_distribution>>
tagVars == <<tagPosts, tagsDone, analysisHashtags, aiAnalysisHashtags>>
dashVars == <<lastDiscoveryTime, nextUpdateTime, timeLeft, timerAt>>

vars ==
  <<rateVars, fetchVars, gateVars, scoreVars, clusterVars, pipeVars,
    multiVars, storeVars, respVars, aiVars, backoffVars, sentVars, tagVars, dashVars>>

(***************************************************************************)
(* RedditProvider: rate limiter                                            *)
(***************************************************************************)
MAX_REQUESTS_PER_MINUTE == 100
MAX_REQUESTS_PER_10_MIN == 996
ONE_MINUTE == 60000
TEN_MINUTES == 600000
MIN_DELAY == 600

\* Bounds of the exploration.
MaxRequests == 1000      \* checkRateLimit calls in a sequential run
MaxRaceRequests == 104   \* checkRateLimit calls in a two-task run
MaxSlow == 1             \* page fetches of a run that may be slow
SlowHorizon == 2         \* a slow page fetch happens among the first calls

Tasks == {1, 2}
Paces == {0, 250, 600, 900}  \* time the page fetches of a run take
SlowPaces == {61000}     \* a page fetch slower than the one-minute window
RacePaces == {0, 250}    \* page fetch times of the two-task runs

\* requestTimestamps.filter(timestamp => now - timestamp < 10 * 60 * 1000)
CleanOld(ts, t) ==
  LET Keep(x) == t - x < TEN_MINUTES IN SelectSeq(ts, Keep)

\* requestTimestamps.filter(timestamp => now - timestamp < 60 * 1000).length
RecentRequests(ts, t) ==
  Cardinality({i \in DOMAIN ts : t - ts[i] < ONE_MINUTE})

\* setTimeout(resolve, w): Node runs a timer of less than 1 ms after 1 ms.
TimerDelay(w) == IF w < 1 THEN 1 ELSE w

\* The one-minute wait: 60000 - (now - requestTimestamps[length - 100]).
MinuteWait(ts, t) ==
  ONE_MINUTE - (t - ts[Len(ts) - MAX_REQUESTS_PER_MINUTE + 1])

\* The ten-minute wait: 10 * 60 * 1000 - (now - requestTimestamps[0]).
TenMinuteWait(ts, t) == TEN_MINUTES - (t - ts[1])

\* The spacing wait: 600 - (now - lastRequestTime).
SpacingWait(last, t) == MIN_DELAY - (t - last)

\* Whether the one-minute, ten-minute and spacing checks ask for a wait.
MinuteLimitHit(ts, t) == RecentRequests(ts, t) >= MAX_REQUESTS_PER_MINUTE
TenMinuteLimitHit_OffByOne(ts) == Len(ts) > MAX_REQUESTS_PER_10_MIN
TenMinuteLimitHit(ts) == Len(ts) >= MAX_REQUESTS_PER_10_MIN
TooSoon(last, t) == t - last < MIN_DELAY

\* checkRateLimit run on from the point `stage` (0: after the clean-up,
\* 1: after the one-minute wait, 2: after the ten-minute wait, 3: after the
\* spacing wait) to its next await or to the push.  ts and last are the
\* static fields as they are when the code reads them, t the call's `now`.
Proceed(stage, ts, last, t, clk) ==
  IF stage < 1 /\ MinuteLimitHit(ts, t)
  THEN [pc |-> "wait1", wake |-> clk + TimerDelay(MinuteWait(ts, t))]
  ELSE IF stage < 2 /\ TenMinuteLimitHit(ts)
  THEN [pc |-> "wait2", wake |-> clk + TimerDelay(TenMinuteWait(ts, t))]
  ELSE IF stage < 3 /\ TooSoon(last, t)
  THEN [pc |-> "wait3", wake |-> clk + TimerDelay(SpacingWait(last, t))]
  ELSE [pc |-> "push", wake |-> clk]

StageOf(l) == CASE l = "wait1" -> 1 [] l = "wait2" -> 2 [] l = "wait3" -> 3
                [] OTHER -> 0

\* The page fetch that follows an admitted request takes `pace`.
PaceChoices ==
  {pace} \cup (IF slowUsed < MaxSlow /\ calls <= SlowHorizon
              THEN SlowPaces ELSE {})

\* The effect of running to the point st: either suspend at an await, or
\* requestTimestamps.push(Date.now()); lastRequestTime = Date.now().
Advance(p, ts, t, st) ==
  IF st.pc = "push"
  THEN /\ requestTimestamps' = Append(ts, clock)
       /\ lastRequestTime' = clock
       /\ admitted' = Append(CleanOld(admitted, clock), clock)
       /\ \E d \in PaceChoices :
            /\ wakeAt' = [wakeAt EXCEPT ![p] = clock + d]
            /\ slowUsed' = IF d \in SlowPaces THEN slowUsed + 1
                           ELSE slowUsed
       /\ pc' = [pc EXCEPT ![p] = "idle"]
       /\ now' = [now EXCEPT ![p] = 0]   \* the call returns: frame gone
  ELSE /\ requestTimestamps' = ts
       /\ pc' = [pc EXCEPT ![p] = st.pc]
       /\ wakeAt' = [wakeAt EXCEPT ![p] = st.wake]
       /\ now' = [now EXCEPT ![p] = t]
       /\ UNCHANGED <<lastRequestTime, admitted, slowUsed>>

\* A task calls checkRateLimit: now = Date.now(), the clean-up, the checks.
Enter(p, cap) ==
  /\ pc[p] = "idle"
  /\ wakeAt[p] <= clock
  /\ calls < cap
  /\ calls' = calls + 1
  /\ LET ts == CleanOld(requestTimestamps, clock)
     IN Advance(p, ts, clock,
                Proceed(0, ts, lastRequestTime, clock, clock))
  /\ UNCHANGED <<clock, pace>>

\* A timer of checkRateLimit fires and the call runs on.
Resume(p) ==
  /\ pc[p] \in {"wait1", "wait2", "wait3"}
  /\ wakeAt[p] <= clock
  /\ Advance(p, requestTimestamps, now[p],
             Proceed(StageOf(pc[p]), requestTimestamps, lastRequestTime,
                     now[p], clock))
  /\ UNCHANGED <<clock, calls, pace>>

Active == {p \in Tasks : pc[p] # "off"}
Runnable(cap) ==
  {p \in Active : wakeAt[p] <= clock /\ (pc[p] = "idle" => calls < cap)}
Pending == {p \in Active : wakeAt[p] > clock}

\* Nothing can run at this instant: time passes until the next timer fires.
Tick(cap) ==
  /\ Runnable(cap) = {}
  /\ Pending # {}
  /\ clock' = CHOOSE t \in {wakeAt[p] : p \in Pending} :
                \A p \in Pending : t <= wakeAt[p]
  /\ UNCHANGED <<requestTimestamps, lastRequestTime, pc, now, wakeAt,
                 calls, slowUsed, pace, admitted>>

\* The limiter as it is before any request, with the tasks that will run.
RateInit(running, paces) ==
  /\ requestTimestamps = <<>>
  /\ lastRequestTime = 0
  /\ clock \in {1000000}
  /\ pc = [p \in Tasks |-> IF p \in running THEN "idle" ELSE "off"]
  /\ now = [p \in Tasks |-> 0]
  /\ wakeAt = [p \in Tasks |-> 0]
  /\ calls = 0
  /\ slowUsed = 0
  /\ pace \in paces
  /\ admitted = <<>>

(***************************************************************************)
(* RedditProvider.fetchMaxViralPosts: the pagination loop                  *)
(***************************************************************************)
MAX_ITEMS_PER_SUBREDDIT == 1000
ITEMS_PER_REQUEST == 100
BACKOFF_BASE == 1000
BACKOFF_CAP == 30000

\* Inputs of the exploration: the callers' maxItems (5: the route's test
\* mode, 50: fetchMultiRedditTrends' default) and what a page can hold.
MaxItemsChoices == {5, 50, 100, 250}
ChildrenCounts == {0, 60, 100}

Min(a, b) == IF a < b THEN a ELSE b
CeilDiv(a, b) == (a + b - 1) \div b

\* Math.min(maxItems, MAX_ITEMS_PER_SUBREDDIT)
TargetItems(m) == Min(m, MAX_ITEMS_PER_SUBREDDIT)
\* Math.ceil(targetItems / ITEMS_PER_REQUEST)
PagesNeeded(m) == CeilDiv(TargetItems(m), ITEMS_PER_REQUEST)

RECURSIVE Pow2(_)
Pow2(n) == IF n <= 0 THEN 1 ELSE 2 * Pow2(n - 1)
\* The delay without Math.min(..., 30000).
BackoffTime_Uncapped(pg) == BACKOFF_BASE * Pow2(pg)

\* Math.min(1000 * Math.pow(2, page), 30000)
BackoffTime(pg) == Min(BACKOFF_BASE * Pow2(pg), BACKOFF_CAP)

\* transformRedditData keeps the children isValidPost accepts.
ValidCounts(n) == {0, n \div 2, n}

RECURSIVE TotalPosts(_)
TotalPosts(ps) ==
  IF ps = <<>> THEN 0 ELSE ps[1].n + TotalPosts(Tail(ps))

FetchIdle ==
  /\ fpc = "idle"
  /\ maxItems = 0
  /\ pagesNeeded = 0
  /\ page = 0
  /\ after = 0
  /\ allPosts = <<>>
  /\ backoffTime = 0
  /\ returned = -1

\* The loop is left (its test fails or a break): sort and return allPosts.
Finish(ps) ==
  /\ fpc' = "returned"
  /\ returned' = TotalPosts(ps)

\* The loop test `page < pagesNeeded` with the value pg of page.
LoopTest(pg, needed, ps) ==
  IF pg < needed
  THEN fpc' = "rate" /\ returned' = returned
  ELSE Finish(ps)

\* fetchMaxViralPosts(subreddit, m) is called.
FetchCall(m) ==
  /\ fpc = "idle"
  /\ maxItems' = m
  /\ pagesNeeded' = PagesNeeded(m)
  /\ page' = 0
  /\ after' = 0
  /\ allPosts' = <<>>
  /\ backoffTime' = 0
  /\ LoopTest(0, PagesNeeded(m), <<>>)

\* await this.checkRateLimit() returns (the limiter's own state: SpecRate).
RateLimitAdmits ==
  /\ fpc = "rate"
  /\ fpc' = "fetch"
  /\ UNCHANGED <<maxItems, pagesNeeded, page, after, allPosts, backoffTime,
                 returned>>

\* The source answers 429: back off, then `page--; continue`.
Respond429 ==
  /\ fpc = "fetch"
  /\ fpc' = "backoff"
  /\ backoffTime' = BackoffTime(page)
  /\ UNCHANGED <<maxItems, pagesNeeded, page, after, allPosts, returned>>

\* The backoff timer fires: page-- and the loop's page++ give the same page.
BackoffDone ==
  /\ fpc = "backoff"
  /\ backoffTime' = 0
  /\ page' = (page - 1) + 1
  /\ LoopTest((page - 1) + 1, pagesNeeded, allPosts)
  /\ UNCHANGED <<maxItems, pagesNeeded, after, allPosts>>

\* The source answers another error status: break, return what we have.
RespondError ==
  /\ fpc = "fetch"
  /\ Finish(allPosts)
  /\ UNCHANGED <<maxItems, pagesNeeded, page, after, allPosts, backoffTime>>

\* fetch or response.json() rejects: the catch block rethrows.
RespondThrow ==
  /\ fpc = "fetch"
  /\ fpc' = "thrown"
  /\ UNCHANGED <<maxItems, pagesNeeded, page, after, allPosts, backoffTime,
                 returned>>

\* The answer 200 handled without `after = data.data.after || null`: the
\* cursor stays what it was.
RespondOk_KeepsCursor(n, k, more) ==
  /\ fpc = "fetch"
  /\ IF n = 0
     THEN /\ Finish(allPosts)
          /\ UNCHANGED <<page, after, allPosts>>
     ELSE LET ps == Append(allPosts, [cursor |-> after, n |-> k])
          IN /\ allPosts' = ps
             /\ after' = after
             /\ IF more
                THEN page' = page + 1 /\ LoopTest(page + 1, pagesNeeded, ps)
                ELSE page' = page /\ Finish(ps)
  /\ UNCHANGED <<maxItems, pagesNeeded, backoffTime>>

\* The source answers 200 with n children, k of them valid, and a cursor
\* (more = TRUE) or none.
RespondOk(n, k, more) ==
  /\ fpc = "fetch"
  /\ IF n = 0
     THEN /\ Finish(allPosts)
          /\ UNCHANGED <<page, after, allPosts>>
     ELSE LET ps == Append(allPosts, [cursor |-> after, n |-> k])
          IN /\ allPosts' = ps
             /\ after' = IF more THEN after + 1 ELSE 0
             /\ IF more
                THEN page' = page + 1 /\ LoopTest(page + 1, pagesNeeded, ps)
                ELSE page' = page /\ Finish(ps)
  /\ UNCHANGED <<maxItems, pagesNeeded, backoffTime>>

(***************************************************************************)
(* POST /api/trending/discover: the 15-minute gate, the fetch, the store   *)
(***************************************************************************)
MIN_DISCOVERY_INTERVAL == 900000   \* 15 minutes, in ms

MaxTriggers == 3         \* triggers in a run
MaxWall == 2700000       \* the runs end at this time

Triggers == {1, 2}
Tweets == {"t1", "t2"}   \* tweets that pass transformTwitterData's filter
WallSteps == {300000, 900000}

\* Rows the table may hold when the service starts.
InitialTables ==
  {{}, {[platform_post_id |-> "t0", platform |-> "twitter",
         discovered_at |-> 0]}}

Row(id, pf, t) ==
  [platform_post_id |-> id, platform |-> pf, discovered_at |-> t]

StoredIds(table) == {r.platform_post_id : r \in table}

\* getLastDiscoveryTime: the newest discovered_at, or null (-1) without rows.
GetLastDiscoveryTime(table) ==
  IF table = {} THEN -1
  ELSE CHOOSE t \in {r.discovered_at : r \in table} :
         \A r \in table : r.discovered_at <= t

\* minutesSinceLastDiscovery < 15 && lastDiscovery
GateDefers(last, t) == last # -1 /\ t - last < MIN_DISCOVERY_INTERVAL

\* supabase.upsert(row) without onConflict resolves conflicts on the primary
\* key id only, which the row does not carry: a new platform_post_id is
\* inserted, a stored one violates UNIQUE and the call returns an error.
Upsert(table, id, pf, t) ==
  IF id \in StoredIds(table) THEN table ELSE table \cup {Row(id, pf, t)}

\* storeTrendingPosts: one upsert per post, discovered_at = new Date().
RECURSIVE StoreTrendingPosts(_, _, _, _)
StoreTrendingPosts(table, ids, pf, t) ==
  IF ids = {} THEN table
  ELSE LET id == CHOOSE x \in ids : TRUE
       IN StoreTrendingPosts(Upsert(table, id, pf, t), ids \ {id}, pf, t)

GateIdle ==
  /\ trending_posts = {}
  /\ wall = 0
  /\ tpc = [q \in Triggers |-> "idle"]
  /\ fetched = [q \in Triggers |-> {}]
  /\ outcome = [q \in Triggers |-> "none"]
  /\ triggers = 0
  /\ twitterRequests = <<>>

GateInit ==
  /\ trending_posts \in InitialTables
  /\ wall = MIN_DISCOVERY_INTERVAL
  /\ tpc = [q \in Triggers |-> "idle"]
  /\ fetched = [q \in Triggers |-> {}]
  /\ outcome = [q \in Triggers |-> "none"]
  /\ triggers = 0
  /\ twitterRequests = <<>>

\* A trigger arrives: the gate is read and either answers "deferred" or
\* lets the handler call fetchTwitterTrends, which sends the request.
TriggerGate(q) ==
  /\ tpc[q] = "idle"
  /\ triggers < MaxTriggers
  /\ triggers' = triggers + 1
  /\ IF GateDefers(GetLastDiscoveryTime(trending_posts), wall)
     THEN /\ outcome' = [outcome EXCEPT ![q] = "deferred"]
          /\ UNCHANGED <<tpc, twitterRequests>>
     ELSE /\ tpc' = [tpc EXCEPT ![q] = "fetch"]
          /\ outcome' = [outcome EXCEPT ![q] = "none"]
          /\ twitterRequests' = Append(twitterRequests, wall)
  /\ UNCHANGED <<trending_posts, wall, fetched>>

\* Twitter answers 200 and ids are the posts that pass the quality filter:
\* none gives the "no viral content" success response without a store.
TwitterAnswers(q, ids) ==
  /\ tpc[q] = "fetch"
  /\ IF ids = {}
     THEN /\ tpc' = [tpc EXCEPT ![q] = "idle"]
          /\ outcome' = [outcome EXCEPT ![q] = "accepted"]
          /\ UNCHANGED fetched
     ELSE /\ tpc' = [tpc EXCEPT ![q] = "store"]
          /\ fetched' = [fetched EXCEPT ![q] = ids]
          /\ UNCHANGED outcome
  /\ UNCHANGED <<trending_posts, wall, triggers, twitterRequests>>

\* Twitter answers an error status or the fetch fails: fetchTwitterTrends
\* throws and the handler answers from its catch block.
TwitterFails(q) ==
  /\ tpc[q] = "fetch"
  /\ tpc' = [tpc EXCEPT ![q] = "idle"]
  /\ outcome' = [outcome EXCEPT ![q] = "failed"]
  /\ UNCHANGED <<trending_posts, wall, fetched, triggers, twitterRequests>>

\* storeTrendingPosts(twitterTrends), then the success response.
TriggerStore(q) ==
  /\ tpc[q] = "store"
  /\ trending_posts' =
       StoreTrendingPosts(trending_posts, fetched[q], "twitter", wall)
  /\ tpc' = [tpc EXCEPT ![q] = "idle"]
  /\ fetched' = [fetched EXCEPT ![q] = {}]
  /\ outcome' = [outcome EXCEPT ![q] = "accepted"]
  /\ UNCHANGED <<wall, triggers, twitterRequests>>

\* The Reddit discovery route stores its posts in the same table:
\* storeTrendingPosts(redditTrends), discovered_at = new Date().
RedditPostIds == {"r1", "r2"}
RedditDiscoveryStores(ids) ==
  /\ \A q \in Triggers : tpc[q] = "idle"
  /\ trending_posts' = StoreTrendingPosts(trending_posts, ids, "reddit", wall)
  /\ UNCHANGED <<wall, tpc, fetched, outcome, triggers, twitterRequests>>

\* Time passes.
WallTick(d) ==
  /\ wall + d <= MaxWall
  /\ wall' = wall + d
  /\ UNCHANGED <<trending_posts, tpc, fetched, outcome, triggers,
                 twitterRequests>>

(***************************************************************************)
(* The engagement scorers                                                  *)
(***************************************************************************)
\* Math.round(n / d) for d > 0: the nearest integer, halves rounded up.
RoundDiv(n, d) == (2 * n + d) \div (2 * d)

\* The scorer with the retweet weight subtracted instead of added.
TwitterEngagementScore_Minus(mt) ==
  RoundDiv(1000 * (mt.like_count * 1 - mt.retweet_count * 3
                   + mt.reply_count * 4 + mt.quote_count * 3
                   + mt.bookmark_count * 2)
           + mt.impression_count * 1, 1000)

\* TrendingAnalysisService.calculateEngagementScore(metrics): the weighted
\* sum, in thousandths because impression_count weighs 0.001, then rounded.
TwitterEngagementScore(mt) ==
  RoundDiv(1000 * (mt.like_count * 1 + mt.retweet_count * 3
                   + mt.reply_count * 4 + mt.quote_count * 3
                   + mt.bookmark_count * 2)
           + mt.impression_count * 1, 1000)

\* RedditProvider.calculateRecencyBonus: hoursAgo against 2, 6 and 12 hours,
\* with created_utc and the clock in seconds.
RecencyBonus(createdUtc, nowSec) ==
  LET secondsAgo == nowSec - createdUtc
  IN IF secondsAgo <= 2 * 3600 THEN 100
     ELSE IF secondsAgo <= 6 * 3600 THEN 50
     ELSE IF secondsAgo <= 12 * 3600 THEN 25
     ELSE 0

\* RedditProvider.calculateEngagementScore(post): upvote_ratio is held in
\* hundredths (ratio = 87 is 0.87), so the sum is in hundredths too.
\*   adjustedUpvotes = score * (upvote_ratio || 0.5)
\*   commentWeight   = num_comments * 3
\*   ratioBonus      = (upvote_ratio || 0) > 0.8 ? score * 0.5 : 0
RedditEngagementScore(post, nowSec) ==
  LET adjustedUpvotes == post.score * (IF post.ratio = 0 THEN 50
                                       ELSE post.ratio)
      commentWeight == 100 * (post.num_comments * 3)
      ratioBonus == IF post.ratio > 80 THEN post.score * 50 ELSE 0
      recencyBonus == 100 * RecencyBonus(post.created_utc, nowSec)
  IN RoundDiv(adjustedUpvotes + commentWeight + ratioBonus + recencyBonus,
              100)

\* Raw posts of the exploration.
SCORING_TIME == 100000           \* Date.now() / 1000 when the pair is scored
Counts == {0, 1, 7}
Impressions == {0, 499, 500, 1500}
Raises == {1, 3}
TwitterCounters ==
  {"like_count", "retweet_count", "reply_count", "quote_count",
   "bookmark_count", "impression_count"}
TwitterMetrics ==
  [like_count : Counts, retweet_count : Counts, reply_count : Counts,
   quote_count : Counts, bookmark_count : Counts,
   impression_count : Impressions]
RedditCounters == {"score", "num_comments"}
RedditRaw ==
  [score : {0, 1, 51, 200}, num_comments : {0, 6, 40},
   ratio : {0, 50, 61, 80, 81, 100},
   created_utc : {SCORING_TIME - 3600, SCORING_TIME - 7201,
                  SCORING_TIME - 90000}]

ScoreIdle ==
  /\ scorer = "none"
  /\ rawA = <<>>
  /\ rawB = <<>>
  /\ scoreA = -1
  /\ scoreB = -1

\* A raw post and the same post with one engagement counter raised.
ScoreInit ==
  /\ scorer \in {"twitter", "reddit"}
  /\ rawA \in (IF scorer = "twitter" THEN TwitterMetrics ELSE RedditRaw)
  /\ \E c \in (IF scorer = "twitter" THEN TwitterCounters ELSE RedditCounters) :
       \E d \in Raises : rawB = [rawA EXCEPT ![c] = rawA[c] + d]
  /\ scoreA = -1
  /\ scoreB = -1

\* transformTwitterData scores the two tweets.
ScoreTwitterPair ==
  /\ scorer = "twitter"
  /\ scoreA = -1
  /\ scoreA' = TwitterEngagementScore(rawA)
  /\ scoreB' = TwitterEngagementScore(rawB)
  /\ UNCHANGED <<scorer, rawA, rawB>>

\* transformPost scores the two Reddit posts.
ScoreRedditPair ==
  /\ scorer = "reddit"
  /\ scoreA = -1
  /\ scoreA' = RedditEngagementScore(rawA, SCORING_TIME)
  /\ scoreB' = RedditEngagementScore(rawB, SCORING_TIME)
  /\ UNCHANGED <<scorer, rawA, rawB>>

\* Seconds between two evaluations of the same raw post.
RescoreDelays == {0, 60, 3600, 7200, 43200}

\* One raw post, to be scored twice.
RescoreInit ==
  /\ scorer \in {"twitter", "reddit"}
  /\ rawA \in (IF scorer = "twitter" THEN TwitterMetrics ELSE RedditRaw)
  /\ rawB = rawA
  /\ scoreA = -1
  /\ scoreB = -1

\* The first evaluation, at SCORING_TIME.
ScoreOnce ==
  /\ scoreA = -1
  /\ scoreA' = IF scorer = "twitter" THEN TwitterEngagementScore(rawA)
               ELSE RedditEngagementScore(rawA, SCORING_TIME)
  /\ UNCHANGED <<scorer, rawA, rawB, scoreB>>

\* The second evaluation of the same raw post, `later` seconds after.
ScoreAgain(later) ==
  /\ scoreA # -1
  /\ scoreB = -1
  /\ scoreB' = IF scorer = "twitter" THEN TwitterEngagementScore(rawB)
               ELSE RedditEngagementScore(rawB, SCORING_TIME + later)
  /\ UNCHANGED <<scorer, rawA, rawB, scoreA>>

(***************************************************************************)
(* The trend clusterers                                                    *)
(*                                                                         *)
(* A JavaScript object with string keys enumerates them in insertion order,*)
(* so `groups` is a sequence of [key, posts] records in that order.        *)
(***************************************************************************)
MIN_TREND_GROUP == 2             \* posts.length >= 2
MIN_AI_GROUP == 3                \* posts.length >= 3
FALLBACK_GROUPS == 5             \* sortedGroups.slice(0, 5)
AI_GROUP_LIMIT == 20             \* posts.slice(0, 20)

Take(sq, n) == SubSeq(sq, 1, Min(n, Len(sq)))

\* x || y on strings: the empty string (and null, held as "") is falsy.
OrElse(x, y) == IF x = "" THEN y ELSE x

\* groupKeys.find(k => k && k !== '' && k !== 'undefined'), "" if none.
FirstKey(keys) ==
  LET ok == {i \in 1..Len(keys) : keys[i] # "" /\ keys[i] # "undefined"}
  IN IF ok = {} THEN ""
     ELSE keys[CHOOSE i \in ok : \A j \in ok : i <= j]

\* The key groupPostsByTrends files a post under.  For a Reddit post the
\* candidates start with the category, which is never empty, so the
\* keywords that follow it in the source cannot be selected.
TrendKey(post) ==
  LET category == OrElse(post.trend_category, "General")
      groupKeys ==
        IF post.platform = "reddit"
        THEN <<category, "r/" \o OrElse(post.subreddit, "unknown")>>
        ELSE Take(post.hashtags, 2) \o <<category>>
  IN OrElse(FirstKey(groupKeys), OrElse(post.trend_category, "general"))

\* The key groupPostsForAIAnalysis files a post under.
AIKey(post) ==
  LET category == OrElse(post.trend_category, "General")
  IN IF post.platform = "reddit"
     THEN "r/" \o OrElse(post.subreddit, "general") \o " " \o category
     ELSE IF post.platform = "twitter"
     THEN LET topHashtag == IF Len(post.hashtags) >= 1
                            THEN post.hashtags[1] ELSE ""
          IN IF topHashtag # "" THEN topHashtag \o " " \o category
             ELSE category
     ELSE category

\* if (!groups[key]) groups[key] = []; groups[key].push(post)
AddToGroups(gs, key, post) ==
  IF \E i \in 1..Len(gs) : gs[i].key = key
  THEN [i \in 1..Len(gs) |->
          IF gs[i].key = key
          THEN [gs[i] EXCEPT !.posts = Append(@, post)] ELSE gs[i]]
  ELSE Append(gs, [key |-> key, posts |-> <<post>>])

\* groupPostsByTrends: posts.forEach(post => ...) with the trend key.
GroupByTrendKey(ps) ==
  LET f[i \in 0..Len(ps)] ==
        IF i = 0 THEN <<>>
        ELSE AddToGroups(f[i - 1], TrendKey(ps[i]), ps[i])
  IN f[Len(ps)]

\* groupPostsForAIAnalysis: posts.forEach(post => ...) with the AI key.
GroupByAIKey(ps) ==
  LET f[i \in 0..Len(ps)] ==
        IF i = 0 THEN <<>>
        ELSE AddToGroups(f[i - 1], AIKey(ps[i]), ps[i])
  IN f[Len(ps)]

\* The filter with `posts.length > least` instead of `>=`.
FilterGroups_Above(gs, least) == SelectSeq(gs, LAMBDA g : Len(g.posts) > least)

\* The groups with at least `least` posts, in enumeration order.
FilterGroups(gs, least) == SelectSeq(gs, LAMBDA g : Len(g.posts) >= least)

\* Object.entries(groups).sort(([,a], [,b]) => b.length - a.length):
\* Array.prototype.sort is stable, groups of equal size keep their order.
SortBySize(gs) ==
  LET Insert(sorted, g) ==
        LET k == Cardinality({i \in 1..Len(sorted) :
                                Len(sorted[i].posts) >= Len(g.posts)})
        IN SubSeq(sorted, 1, k) \o <<g>> \o SubSeq(sorted, k + 1, Len(sorted))
      f[i \in 0..Len(gs)] == IF i = 0 THEN <<>> ELSE Insert(f[i - 1], gs[i])
  IN f[Len(gs)]

\* The fallback taken from the filtered groups instead of all the groups.
LargestGroups_OfFiltered(gs, least) ==
  Take(SortBySize(FilterGroups(gs, least)), FALLBACK_GROUPS)

\* "take the largest groups anyway": the first five of the sorted groups.
LargestGroups(gs, least) == Take(SortBySize(gs), FALLBACK_GROUPS)

GroupPostsByTrends(ps) ==
  LET gs == GroupByTrendKey(ps)
      filteredGroups == FilterGroups(gs, MIN_TREND_GROUP)
  IN IF Len(filteredGroups) = 0 THEN LargestGroups(gs, MIN_TREND_GROUP)
     ELSE filteredGroups

GroupPostsForAIAnalysis(ps) ==
  LET gs == GroupByAIKey(ps)
      Limit(sq) == [i \in 1..Len(sq) |->
                      [sq[i] EXCEPT !.posts = Take(@, AI_GROUP_LIMIT)]]
      filteredGroups == Limit(FilterGroups(gs, MIN_AI_GROUP))
  IN IF Len(filteredGroups) = 0 THEN Limit(LargestGroups(gs, MIN_AI_GROUP))
     ELSE filteredGroups

\* Posts of the exploration ("" stands for a missing trend_category).
MaxPosts == 6
Post(id, pf, tags, cat, sub) ==
  [id |-> id, platform |-> pf, hashtags |-> tags, trend_category |-> cat,
   subreddit |-> sub]
PostPool ==
  <<Post(1, "twitter", <<"#ai">>, "Technology", ""),
    Post(2, "twitter", <<"#ai", "#ml">>, "Technology", ""),
    Post(3, "twitter", <<>>, "Sports", ""),
    Post(4, "twitter", <<"", "#news">>, "", ""),
    Post(5, "reddit", <<>>, "Gaming", "gaming"),
    Post(6, "reddit", <<>>, "", "pics"),
    Post(7, "twitter", <<"#music">>, "Entertainment", ""),
    Post(8, "twitter", <<"#ai", "#music">>, "Technology", "")>>
PostIds == 1..Len(PostPool)

\* The orderings of at most MaxPosts distinct posts of the pool.
PostOrders ==
  LET f[n \in 0..MaxPosts] ==
        IF n = 0 THEN {<<>>}
        ELSE f[n - 1] \cup
             UNION {{Append(o, d) :
                       d \in PostIds \ {o[i] : i \in 1..Len(o)}} :
                    o \in {x \in f[n - 1] : Len(x) = n - 1}}
  IN f[MaxPosts]

ClusterIdle ==
  /\ posts = <<>>
  /\ groups = <<>>
  /\ aiGroups = <<>>
  /\ trendsDone = FALSE
  /\ aiDone = FALSE

ClusterInit ==
  /\ \E o \in PostOrders : posts = [i \in DOMAIN o |-> PostPool[o[i]]]
  /\ groups = <<>>
  /\ aiGroups = <<>>
  /\ trendsDone = FALSE
  /\ aiDone = FALSE

\* analyzeTrends clusters the posts it read.
ClusterTrends ==
  /\ ~trendsDone
  /\ groups' = GroupPostsByTrends(posts)
  /\ trendsDone' = TRUE
  /\ UNCHANGED <<posts, aiGroups, aiDone>>

\* The AI analysis route clusters the posts it read.
ClusterForAI ==
  /\ ~aiDone
  /\ aiGroups' = GroupPostsForAIAnalysis(posts)
  /\ aiDone' = TRUE
  /\ UNCHANGED <<posts, groups, trendsDone>>

(***************************************************************************)
(* The Reddit discovery route: fetch, filter, transform, dedup, store      *)
(*                                                                         *)
(* A raw post carries the fields isValidPost and transformPost read; its   *)
(* title is held as its length and whether it contains "test".             *)
(***************************************************************************)
DISCOVERY_TIME == 200000000      \* Date.now() during both passes (ms)
Subreddits == <<"popular", "technology">>

Raw(id, sub, len, test, sticky, nsfw, sc, nc, rt, who) ==
  [id |-> id, subreddit |-> sub, title_length |-> len, title_test |-> test,
   stickied |-> sticky, over_18 |-> nsfw, score |-> sc, num_comments |-> nc,
   ratio |-> rt, author |-> who,
   created_utc |-> DISCOVERY_TIME \div 1000 - 3600]
RawPool ==
  <<Raw("a", "technology", 20, FALSE, FALSE, FALSE, 200, 40, 90, "ann"),
    Raw("b", "gaming", 12, FALSE, FALSE, FALSE, 51, 6, 61, "bob"),
    Raw("a", "gaming", 30, FALSE, FALSE, FALSE, 900, 70, 95, "cy"),
    Raw("c", "technology", 20, FALSE, FALSE, FALSE, 50, 40, 90, "dee"),
    Raw("d", "news", 20, FALSE, TRUE, FALSE, 900, 70, 95, "mod")>>

\* The listings Reddit may return: posts of the pool, in pool order.
Listings ==
  {SelectSeq(RawPool, LAMBDA r : r \in chosen) :
     chosen \in SUBSET {RawPool[i] : i \in 1..Len(RawPool)}}

\* RedditProvider.isValidPost
IsValidPost(post) ==
  /\ post.title_length > 0
  /\ post.title_length > 5
  /\ ~post.stickied
  /\ ~post.over_18
  /\ post.score > 50
  /\ post.num_comments > 5
  /\ post.ratio > 60
  /\ post.author # "[deleted]"
  /\ post.subreddit # ""
  /\ ~post.title_test

\* RedditProvider.transformPost, the fields the route goes on to use.
TransformPost(post, t) ==
  [platform_post_id |-> post.subreddit \o "_" \o post.id,
   platform |-> "reddit",
   engagement_score |-> RedditEngagementScore(post, t \div 1000)]

\* RedditProvider.transformRedditData: filter(isValidPost).map(transformPost)
TransformRedditData(children, t) ==
  LET valid == SelectSeq(children, IsValidPost)
  IN [i \in 1..Len(valid) |-> TransformPost(valid[i], t)]

\* posts.sort((a, b) => b.engagement_score - a.engagement_score), stable.
SortByScore(ps) ==
  LET Insert(sorted, x) ==
        LET k == Cardinality({i \in 1..Len(sorted) :
                  sorted[i].engagement_score >= x.engagement_score})
        IN SubSeq(sorted, 1, k) \o <<x>> \o SubSeq(sorted, k + 1, Len(sorted))
      f[i \in 0..Len(ps)] == IF i = 0 THEN <<>> ELSE Insert(f[i - 1], ps[i])
  IN f[Len(ps)]

\* RedditProvider.removeDuplicatePosts: the first post of each
\* platform_post_id is kept.
RemoveDuplicatePosts(ps) ==
  LET first == {i \in 1..Len(ps) :
                  \A j \in 1..(i - 1) :
                    ps[j].platform_post_id # ps[i].platform_post_id}
      f[i \in 0..Len(ps)] ==
        IF i = 0 THEN <<>>
        ELSE IF i \in first THEN Append(f[i - 1], ps[i]) ELSE f[i - 1]
  IN f[Len(ps)]

\* RedditProvider.fetchMultiViralContent over a batch in which every
\* listing is one page that Reddit serves without error.
FetchMultiViralContent(batch, t) ==
  LET f[i \in 0..Len(Subreddits)] ==
        IF i = 0 THEN <<>>
        ELSE f[i - 1] \o SortByScore(TransformRedditData(batch[i], t))
  IN SortByScore(RemoveDuplicatePosts(f[Len(Subreddits)]))

PostIdsOf(ps) == {ps[i].platform_post_id : i \in 1..Len(ps)}

PipeIdle ==
  /\ rawBatch = <<>>
  /\ ppc = "off"
  /\ passNo = 0
  /\ redditTrends = <<>>
  /\ accepted = <<>>
  /\ reported = <<>>

PipeInit ==
  /\ rawBatch \in [1..Len(Subreddits) -> Listings]
  /\ ppc = "idle"
  /\ passNo = 0
  /\ redditTrends = <<>>
  /\ accepted = <<>>
  /\ reported = <<>>

\* POST: const redditTrends = await fetchMultiRedditTrends(...)
PipeFetch ==
  /\ ppc = "idle"
  /\ passNo < 2
  /\ passNo' = passNo + 1
  /\ redditTrends' = FetchMultiViralContent(rawBatch, DISCOVERY_TIME)
  /\ ppc' = "fetched"
  /\ UNCHANGED <<rawBatch, accepted, reported, trending_posts>>

\* POST: redditTrends.length === 0, 'No trending Reddit content found'.
PipeNone ==
  /\ ppc = "fetched"
  /\ Len(redditTrends) = 0
  /\ accepted' = Append(accepted, {})
  /\ reported' = Append(reported, 0)
  /\ ppc' = "idle"
  /\ UNCHANGED <<rawBatch, passNo, redditTrends, trending_posts>>

\* POST: await storeTrendingPosts(redditTrends)
PipeStore ==
  /\ ppc = "fetched"
  /\ Len(redditTrends) > 0
  /\ trending_posts' = StoreTrendingPosts(trending_posts,
                         PostIdsOf(redditTrends), "reddit", DISCOVERY_TIME)
  /\ ppc' = "stored"
  /\ UNCHANGED <<rawBatch, passNo, redditTrends, accepted, reported>>

\* POST: the response, discovered.newPosts = redditTrends.length.
PipeRespond ==
  /\ ppc = "stored"
  /\ accepted' = Append(accepted, PostIdsOf(redditTrends))
  /\ reported' = Append(reported, Len(redditTrends))
  /\ ppc' = "idle"
  /\ UNCHANGED <<rawBatch, passNo, redditTrends, trending_posts>>

(***************************************************************************)
(* RedditProvider.fetchMultiViralContent: the loop over the subreddits     *)
(***************************************************************************)
NumSubreddits == 3               \* subreddits.length
\* The statuses of a response that is not ok and not 429.
AuthStatuses == {401, 403}
ErrorStatuses == AuthStatuses \cup {500}
MultiMaxItems == {50, 250}       \* maxPostsPerSubreddit

MultiIdle ==
  /\ mpc = "off"
  /\ subredditIndex = 0
  /\ started = {}
  /\ failures = {}
  /\ multiPosts = 0
  /\ routeSuccess = "none"
  /\ writesFailed = FALSE

\* fetchMultiViralContent(subreddits, maxPostsPerSubreddit) is called.
MultiInit ==
  /\ mpc = "loop"
  /\ subredditIndex = 1
  /\ started = {}
  /\ failures = {}
  /\ multiPosts = 0
  /\ routeSuccess = "none"
  /\ writesFailed = FALSE

\* The loop body: const posts = await this.fetchMaxViralPosts(subreddit, ...)
MultiFetch(m) ==
  /\ mpc = "loop"
  /\ subredditIndex <= NumSubreddits
  /\ subredditIndex \notin started
  /\ FetchCall(m)
  /\ started' = started \cup {subredditIndex}
  /\ UNCHANGED <<mpc, subredditIndex, failures, multiPosts, routeSuccess,
                 writesFailed>>

\* fetchMaxViralPosts returned: allPosts.push(...posts), next subreddit.
MultiCollect ==
  /\ mpc = "loop"
  /\ fpc = "returned"
  /\ multiPosts' = multiPosts + returned
  /\ subredditIndex' = subredditIndex + 1
  /\ fpc' = "idle"
  /\ returned' = -1
  /\ UNCHANGED <<mpc, started, failures, routeSuccess, writesFailed>>
  /\ UNCHANGED <<maxItems, pagesNeeded, page, after, allPosts, backoffTime>>

\* fetchMaxViralPosts threw: the catch block logs, "continue with other
\* subreddits".
MultiCatch ==
  /\ mpc = "loop"
  /\ fpc = "thrown"
  /\ failures' = failures \cup {[sub |-> subredditIndex, kind |-> "thrown", status |-> 0]}
  /\ subredditIndex' = subredditIndex + 1
  /\ fpc' = "idle"
  /\ UNCHANGED <<mpc, started, multiPosts, routeSuccess, writesFailed>>
  /\ UNCHANGED <<maxItems, pagesNeeded, page, after, allPosts, backoffTime,
                 returned>>

\* The loop is over: removeDuplicatePosts, sort, return.
MultiReturn ==
  /\ mpc = "loop"
  /\ fpc = "idle"
  /\ subredditIndex > NumSubreddits
  /\ mpc' = "done"
  /\ UNCHANGED <<subredditIndex, started, failures, multiPosts, routeSuccess,
                 writesFailed>>
  /\ UNCHANGED fetchVars

\* A page request of the subreddit being fetched ends in an HTTP error.
MultiPageError(status) ==
  /\ mpc = "loop"
  /\ RespondError
  /\ failures' =
       failures \cup
         {[sub |-> subredditIndex, kind |-> "http", status |-> status]}
  /\ UNCHANGED <<mpc, subredditIndex, started, multiPosts, routeSuccess,
                 writesFailed>>

\* The Reddit route goes on after fetchMultiRedditTrends returned: without
\* posts it answers success: false; otherwise it calls storeTrendingPosts,
\* which counts the upserts that return an error (all of them if dbUp is
\* FALSE) and returns, and the route answers success: true.
RouteResponds(dbUp) ==
  /\ mpc = "done"
  /\ mpc' = "responded"
  /\ IF multiPosts = 0
     THEN routeSuccess' = "false" /\ writesFailed' = FALSE
     ELSE routeSuccess' = "true" /\ writesFailed' = ~dbUp
  /\ UNCHANGED <<subredditIndex, started, failures, multiPosts>>
  /\ UNCHANGED fetchVars

(***************************************************************************)
(* storeTrendingPosts and the trending_posts table, with the counters      *)
(***************************************************************************)
MaxStoreRuns == 3
StoreKeys == {"test_1", "test_2"}
StorePlatforms == {"twitter", "reddit"}
StoreLikes == {10, 20}
StorePosts ==
  [platform_post_id : StoreKeys, platform : StorePlatforms,
   likes : StoreLikes]
Identities == StorePlatforms \X StoreKeys

\* What one discovery run of a platform hands on: one or two posts.  Two
\* listings of Reddit may hold the same post; a Twitter search result holds
\* a tweet once.
StoreBatches(pf) ==
  LET ps == {x \in StorePosts : x.platform = pf}
  IN {<<x>> : x \in ps} \cup
     {b \in {<<x, y>> : x \in ps, y \in ps} :
        pf = "reddit" \/ b[1].platform_post_id # b[2].platform_post_id}

\* The row storeTrendingPosts writes; id is the table's generated key.
FullRow(table, post, t) ==
  [id |-> Cardinality(table) + 1,
   platform_post_id |-> post.platform_post_id, platform |-> post.platform,
   likes |-> post.likes, discovered_at |-> t]

\* supabase.upsert(row) for a row with counters: as Upsert, the conflict
\* target is the primary key id, which is always fresh, so a stored
\* platform_post_id violates UNIQUE, the call returns an error and the
\* stored row keeps its values.
UpsertPost(table, post, t) ==
  IF post.platform_post_id \in StoredIds(table) THEN table
  ELSE table \cup {FullRow(table, post, t)}

RowsOf(table, pf, key) ==
  {r \in table : r.platform = pf /\ r.platform_post_id = key}

StoreIdle ==
  /\ storeQueue = <<>>
  /\ storeRuns = 0
  /\ offered = {}
  /\ latestLikes = <<>>

StoreInit ==
  /\ storeQueue = <<>>
  /\ storeRuns = 0
  /\ offered = {}
  /\ latestLikes = [i \in Identities |-> 0]

\* A discovery run of platform pf found `batch`: the Reddit provider removes
\* duplicates (fetchMultiViralContent), the Twitter path has no such step;
\* the route then calls storeTrendingPosts.
StoreBegin(pf, batch) ==
  /\ storeQueue = <<>>
  /\ storeRuns < MaxStoreRuns
  /\ storeRuns' = storeRuns + 1
  /\ storeQueue' = IF pf = "reddit" THEN RemoveDuplicatePosts(batch)
                   ELSE batch
  /\ UNCHANGED <<offered, latestLikes, trending_posts>>

\* One iteration of storeTrendingPosts' loop: the upsert of one post.
StoreUpsert ==
  /\ storeQueue # <<>>
  /\ LET post == Head(storeQueue)
         ident == <<post.platform, post.platform_post_id>>
     IN /\ trending_posts' = UpsertPost(trending_posts, post, wall)
        /\ offered' = offered \cup {ident}
        /\ latestLikes' = [latestLikes EXCEPT ![ident] = post.likes]
  /\ storeQueue' = Tail(storeQueue)
  /\ UNCHANGED storeRuns

(***************************************************************************)
(* fetchTwitterTrends' errors and the responses of the two discovery       *)
(* routes: the gated POST and the plain POST of discover/route.ts          *)
(***************************************************************************)
MaxHandled == 3
Routes == {"gated", "plain"}
RESET_DEFAULT == 15              \* waitMinutes without x-rate-limit-reset
ResetOffsets == {-120000, 0, 250000}   \* x-rate-limit-reset minus Date.now()

\* What Twitter may answer to the search request; status 0 stands for a
\* fetch that rejects (network error).  reset = -1: no reset header.
TwitterAnswerSet ==
  [status : {200}, ids : SUBSET Tweets, title : {""}, period : {""},
   reset : {-1}]
  \cup [status : {429}, ids : {{}}, title : {"UsageCapExceeded"},
        period : {"Monthly", "Daily"}, reset : {-1}]
  \cup [status : {429}, ids : {{}}, title : {"Too Many Requests"},
        period : {""}, reset : {-1} \cup ResetOffsets]
  \cup [status : {0, 400, 401, 403, 500}, ids : {{}}, title : {""},
        period : {""}, reset : {-1}]

\* An Error: the fixed part of its message and the number it interpolates.
Err(text, minutes) == [text |-> text, minutes |-> minutes]
MSG_MONTHLY == "Twitter API monthly limit exceeded"
MSG_RATE == "Twitter API rate limited. Next request available in"
MSG_AUTH == "Twitter API authentication failed. Check your Bearer Token."
MSG_AUTH_ENV == "Twitter API authentication failed. Please check your Bearer Token in environment variables."
MSG_BAD_REQUEST == "Twitter API bad request"
MSG_DENIED == "Twitter API access denied"
MSG_FAILED == "Twitter API failed"
MSG_NETWORK == "fetch failed"

\* message.includes(needle) for the needles the code looks for.
Includes(msg, needle) ==
  CASE needle = "monthly limit exceeded" -> msg.text = MSG_MONTHLY
    [] needle = "rate limited" -> msg.text = MSG_RATE
    [] needle = "authentication failed" -> msg.text \in {MSG_AUTH, MSG_AUTH_ENV}
    [] OTHER -> FALSE

\* Math.ceil((resetDate.getTime() - Date.now()) / 1000 / 60), or 15.
WaitMinutes(ans) ==
  IF ans.reset = -1 THEN RESET_DEFAULT
  ELSE -((-ans.reset) \div 60000)

\* errorData.title === 'UsageCapExceeded' && errorData.period === 'Monthly',
\* with the period test left out.
IsMonthlyCap_AnyPeriod(ans) == ans.title = "UsageCapExceeded"

\* errorData.title === 'UsageCapExceeded' && errorData.period === 'Monthly'
IsMonthlyCap(ans) == ans.title = "UsageCapExceeded" /\ ans.period = "Monthly"

\* The error fetchTwitterTrends throws inside its try block for an answer
\* that is not ok.
TwitterError(ans) ==
  IF ans.status = 0 THEN Err(MSG_NETWORK, -1)
  ELSE IF ans.status = 429
  THEN IF IsMonthlyCap(ans) THEN Err(MSG_MONTHLY, -1)
       ELSE Err(MSG_RATE, WaitMinutes(ans))
  ELSE IF ans.status = 401 THEN Err(MSG_AUTH, -1)
  ELSE IF ans.status = 400 THEN Err(MSG_BAD_REQUEST, -1)
  ELSE IF ans.status = 403 THEN Err(MSG_DENIED, -1)
  ELSE Err(MSG_FAILED, -1)

\* fetchTwitterTrends' catch block: what leaves the function.
Rethrown(e) ==
  IF Includes(e, "rate limited") THEN e
  ELSE IF Includes(e, "authentication failed") THEN Err(MSG_AUTH_ENV, -1)
  ELSE e

\* error.message.match(/(\d+) minutes/): the digits before " minutes", so
\* the sign of a negative number is not part of the match.
MatchedMinutes(e) == IF e.minutes < 0 THEN -e.minutes ELSE e.minutes

\* A response: the HTTP status, the success field ("absent" if the body has
\* none), the part of the body that tells the kind, the timestamp the body
\* carries (-1: none), the waitMinutes it carries (-1: none), and details.
Resp(st, ok, info, at, mins, details) ==
  [status |-> st, success |-> ok, info |-> info, retryAt |-> at,
   waitMinutes |-> mins, details |-> details]
NoResponse == Resp(0, "absent", "none", -1, -1, "")

\* Gated route: the gate's answer, nextDiscoveryTime = lastDiscovery + 15 min.
GateResponse(last) ==
  Resp(200, "false", "nextDiscoveryTime", last + MIN_DISCOVERY_INTERVAL, -1,
       "")

\* The success responses; the gated route adds nextDiscovery.availableAt.
SuccessResponse(r, t) ==
  Resp(200, "true", "discovered",
       IF r = "gated" THEN t + MIN_DISCOVERY_INTERVAL ELSE -1, -1, "")

\* The catch block of the route.
CatchResponse(r, e) ==
  IF r = "gated" /\ Includes(e, "monthly limit exceeded")
  THEN Resp(429, "false", "monthlyLimitInfo", -1, -1, "")
  ELSE IF r = "gated" /\ Includes(e, "rate limited")
  THEN Resp(429, "false", "rateLimitInfo", -1, MatchedMinutes(e), "")
  ELSE Resp(500, "absent", "error", -1, -1, e.text)

\* What the run ran into, told from Twitter's answer.
CauseOf(ans) ==
  IF ans.status = 200 THEN "ok"
  ELSE IF ans.status = 429
  THEN IF ans.title = "UsageCapExceeded" /\ ans.period = "Monthly"
       THEN "quota" ELSE "rate"
  ELSE IF ans.status \in {401, 403} THEN "auth"
  ELSE "error"

RespIdle ==
  /\ hpc = "off"
  /\ hroute = "none"
  /\ handled = 0
  /\ cause = "none"
  /\ response = NoResponse

RespInit ==
  /\ hpc = "idle"
  /\ hroute = "none"
  /\ handled = 0
  /\ cause = "none"
  /\ response = NoResponse

\* A trigger arrives at route r; the gated route reads the gate first.
HandleTrigger(r) ==
  /\ hpc = "idle"
  /\ handled < MaxHandled
  /\ handled' = handled + 1
  /\ hroute' = r
  /\ LET last == GetLastDiscoveryTime(trending_posts)
     IN IF r = "gated" /\ GateDefers(last, wall)
        THEN /\ response' = GateResponse(last)
             /\ cause' = "gate"
             /\ hpc' = "idle"
        ELSE /\ response' = NoResponse
             /\ cause' = "none"
             /\ hpc' = "fetch"
  /\ UNCHANGED trending_posts

\* Twitter's answer arrives: fetchTwitterTrends returns or throws, and the
\* handler stores and answers, or answers from its catch block.
TwitterResponds(ans) ==
  /\ hpc = "fetch"
  /\ hpc' = "idle"
  /\ cause' = CauseOf(ans)
  /\ IF ans.status = 200
     THEN /\ trending_posts' =
               StoreTrendingPosts(trending_posts, ans.ids, "twitter", wall)
          /\ response' = SuccessResponse(hroute, wall)
     ELSE /\ response' = CatchResponse(hroute, Rethrown(TwitterError(ans)))
          /\ UNCHANGED trending_posts
  /\ UNCHANGED <<hroute, handled>>

(***************************************************************************)
(* analyzeTrends, createTrendAnalysis and the calls of AIAnalysisService   *)
(***************************************************************************)
\* The posts analyzeTrends reads from the store, by position in PostPool.
AnalysisReads == {<<1, 2, 8, 5>>, <<5, 6>>, <<3, 4, 7>>, <<2, 8, 3, 7, 5>>}
EngagementScoreOf(post) == 1000 * post.id

\* What GET /health may do: the fetch rejects, the status is not ok, the
\* body is not JSON, or the body carries a status.
HealthAnswers == {"reject", "notok", "badjson", "degraded", "healthy"}
AI_TITLE == "AI title"
AI_DESCRIPTION == "AI description"
\* What POST /analyze-posts may do; an ok answer carries a title and a
\* description, either of which may be empty.
AnalyzeAnswers ==
  [kind : {"reject", "notok", "badjson"}, trend_title : {""},
   trend_description : {""}]
  \cup [kind : {"ok"}, trend_title : {"", AI_TITLE},
        trend_description : {"", AI_DESCRIPTION}]
NotCalled == [kind |-> "notcalled", trend_title |-> "", trend_description |-> ""]

\* checkAIAvailability with the test of health.status left out.
CheckAIAvailability_AnyOk(h) == h \in {"degraded", "healthy"}

\* checkAIAvailability: response.ok and health.status === 'healthy'; every
\* rejection is caught and gives false.
CheckAIAvailability(h) == h = "healthy"

\* trendKey.includes(needle) for the keys of the exploration.
KeyIncludes(key, needle) ==
  CASE needle = "r/" -> key \in {"r/gaming", "r/pics", "r/unknown"}
    [] needle = "#" -> key \in {"#ai", "#ml", "#news", "#music"}
    [] OTHER -> FALSE

\* [...new Set(posts.map(p => p.platform))]: first occurrences, in order.
PlatformsOf(ps) ==
  LET f[i \in 0..Len(ps)] ==
        IF i = 0 THEN <<>>
        ELSE IF \E j \in 1..Len(f[i - 1]) : f[i - 1][j] = ps[i].platform
        THEN f[i - 1] ELSE Append(f[i - 1], ps[i].platform)
  IN f[Len(ps)]

\* Array.prototype.join(', ')
JoinComma(sq) ==
  LET f[i \in 0..Len(sq)] ==
        IF i = 0 THEN ""
        ELSE IF i = 1 THEN sq[1] ELSE f[i - 1] \o ", " \o sq[i]
  IN f[Len(sq)]

TotalEngagement(ps) ==
  LET f[i \in 0..Len(ps)] ==
        IF i = 0 THEN 0 ELSE f[i - 1] + EngagementScoreOf(ps[i])
  IN f[Len(ps)]

GenerateFallbackTrendTitle(trendKey, ps) ==
  LET platforms == PlatformsOf(ps)
      platformText ==
        IF Len(platforms) = 1 THEN platforms[1] ELSE "Multi-platform"
  IN IF KeyIncludes(trendKey, "r/") THEN trendKey \o " Community Trends"
     ELSE IF KeyIncludes(trendKey, "#") THEN trendKey \o " Trending"
     ELSE trendKey \o " " \o platformText \o " Trends"

\* The number is written without the locale's digit grouping.
GenerateFallbackDescription(ps) ==
  "Analysis of " \o ToString(Len(ps)) \o " viral posts from "
  \o JoinComma(PlatformsOf(ps)) \o ". " \o ToString(TotalEngagement(ps))
  \o " total engagement across trending content."

\* aiInsights: null, or what analyzePostGroup returned.
Insights(title, description) ==
  [isNull |-> FALSE, trendTitle |-> title, trendDescription |-> description]
NullInsights == [isNull |-> TRUE, trendTitle |-> "", trendDescription |-> ""]

\* The catch block of analyzePostGroup.
CatchTitle(groupKey) == groupKey \o " Trending"
CatchDescription(ps) ==
  "Analysis of " \o ToString(Len(ps)) \o " viral posts from "
  \o JoinComma(PlatformsOf(ps))

\* analyzePostGroup for an answer of POST /analyze-posts.
AnalyzePostGroup(ps, groupKey, ans) ==
  IF ans.kind = "ok"
  THEN Insights(OrElse(ans.trend_title, groupKey \o " Trending"),
                OrElse(ans.trend_description,
                       "Analysis of " \o ToString(Len(ps)) \o " viral posts"))
  ELSE Insights(CatchTitle(groupKey), CatchDescription(ps))

\* The TrendAnalysis createTrendAnalysis builds from aiInsights.
TrendAnalysisOf(trendKey, ps, aiInsights) ==
  [key |-> trendKey,
   trend_title |->
     OrElse(aiInsights.trendTitle, GenerateFallbackTrendTitle(trendKey, ps)),
   trend_description |->
     OrElse(aiInsights.trendDescription, GenerateFallbackDescription(ps)),
   total_posts |-> Len(ps),
   ai_analysis |-> ~aiInsights.isNull]

AiIdle ==
  /\ apc = "off"
  /\ trendGroups = <<>>
  /\ groupIndex = 1
  /\ analyses = <<>>
  /\ healthSeen = <<>>
  /\ analyzeSeen = <<>>

\* analyzeTrends has read the posts and grouped them.
AiInit ==
  /\ apc = "loop"
  /\ \E o \in AnalysisReads :
       trendGroups = GroupPostsByTrends([i \in DOMAIN o |-> PostPool[o[i]]])
  /\ groupIndex = 1
  /\ analyses = <<>>
  /\ healthSeen = <<>>
  /\ analyzeSeen = <<>>

\* createTrendAnalysis is called for the next entry and awaits
\* checkAIAvailability, which awaits fetch(/health).
CreateTrendAnalysis ==
  /\ apc = "loop"
  /\ groupIndex <= Len(trendGroups)
  /\ apc' = "health"
  /\ UNCHANGED <<trendGroups, groupIndex, analyses, healthSeen, analyzeSeen>>

\* /health settles.  If the service is available analyzePostGroup is called
\* and awaits fetch(/analyze-posts); otherwise the analysis is built with
\* aiInsights = null and pushed.
HealthSettles(h) ==
  /\ apc = "health"
  /\ IF CheckAIAvailability(h)
     THEN /\ apc' = "analyze"
          /\ healthSeen' = Append(healthSeen, h)
          /\ UNCHANGED <<groupIndex, analyses, analyzeSeen>>
     ELSE /\ apc' = "loop"
          /\ analyses' =
               Append(analyses,
                      TrendAnalysisOf(trendGroups[groupIndex].key,
                                      trendGroups[groupIndex].posts,
                                      NullInsights))
          /\ healthSeen' = Append(healthSeen, h)
          /\ analyzeSeen' = Append(analyzeSeen, NotCalled)
          /\ groupIndex' = groupIndex + 1
  /\ UNCHANGED trendGroups

\* /analyze-posts settles: analyzePostGroup returns and the analysis is
\* built and pushed.
AnalyzeSettles(ans) ==
  /\ apc = "analyze"
  /\ apc' = "loop"
  /\ analyses' =
       Append(analyses,
              TrendAnalysisOf(trendGroups[groupIndex].key,
                              trendGroups[groupIndex].posts,
                              AnalyzePostGroup(trendGroups[groupIndex].posts,
                                               trendGroups[groupIndex].key,
                                               ans)))
  /\ analyzeSeen' = Append(analyzeSeen, ans)
  /\ groupIndex' = groupIndex + 1
  /\ UNCHANGED <<trendGroups, healthSeen>>

\* After the loop: storeTrendAnalyses, sort, return.
AnalyzeTrendsReturns ==
  /\ apc = "loop"
  /\ groupIndex > Len(trendGroups)
  /\ apc' = "done"
  /\ UNCHANGED <<trendGroups, groupIndex, analyses, healthSeen, analyzeSeen>>

\* No backoff delay applied yet.
BackoffIdle ==
  /\ prevDelay = 0
  /\ lastDelay = 0

(***************************************************************************)
(* TrendingAnalysisService.calculateSentimentDistribution                  *)
(***************************************************************************)
MaxGroupSize == 4
\* What the column sentiment TEXT CHECK (sentiment IN (...)) can hold; the
\* check passes for NULL.
SentimentValues == {"positive", "negative", "neutral", "null"}

\* A share count / total, kept as the two integers of the division.
Share(count, total) == [num |-> count, den |-> total]
ZeroShare == [num |-> 0, den |-> 1]
NoDistribution ==
  [positive |-> ZeroShare, negative |-> ZeroShare, neutral |-> ZeroShare,
   computed |-> FALSE]

\* distribution[post.sentiment]++ for the posts whose sentiment is `which`.
CountSentiment(ss, which) == Cardinality({i \in DOMAIN ss : ss[i] = which})

CalculateSentimentDistribution(ss) ==
  LET total == Len(ss)
      Of(which) == IF total > 0 THEN Share(CountSentiment(ss, which), total)
                   ELSE ZeroShare
  IN [positive |-> Of("positive"), negative |-> Of("negative"),
      neutral |-> Of("neutral"), computed |-> TRUE]

\* The groups of the exploration: 1 to MaxGroupSize posts.
SentimentGroups ==
  UNION {[1..n -> SentimentValues] : n \in 1..MaxGroupSize}

SentIdle ==
  /\ sentiments = <<>>
  /\ sentiment_distribution = NoDistribution

SentInit ==
  /\ sentiments \in SentimentGroups
  /\ sentiment_distribution = NoDistribution

\* createTrendAnalysis computes the distribution of the group.
SentimentCalculated ==
  /\ ~sentiment_distribution.computed
  /\ sentiment_distribution' = CalculateSentimentDistribution(sentiments)
  /\ UNCHANGED sentiments

(***************************************************************************)
(* The hashtags of createTrendAnalysis and of createAITrendAnalysis        *)
(***************************************************************************)
TOP_HASHTAGS == 10
MaxTagPosts == 3

\* posts.flatMap(p => p.hashtags || [])
FlatHashtags(ps) ==
  LET f[i \in 0..Len(ps)] ==
        IF i = 0 THEN <<>> ELSE f[i - 1] \o ps[i].hashtags
  IN f[Len(ps)]

\* countOccurrences: Object.entries of the counts, keys in insertion order.
CountOccurrences(tags) ==
  LET Bump(es, tag) ==
        IF \E i \in 1..Len(es) : es[i].tag = tag
        THEN [i \in 1..Len(es) |->
                IF es[i].tag = tag
                THEN [es[i] EXCEPT !.count = @ + 1] ELSE es[i]]
        ELSE Append(es, [tag |-> tag, count |-> 1])
      f[i \in 0..Len(tags)] ==
        IF i = 0 THEN <<>> ELSE Bump(f[i - 1], tags[i])
  IN f[Len(tags)]

\* .sort(([,a], [,b]) => b - a): stable, by descending count.
SortByCount(es) ==
  LET Insert(sorted, e) ==
        LET k == Cardinality({i \in 1..Len(sorted) :
                                sorted[i].count >= e.count})
        IN SubSeq(sorted, 1, k) \o <<e>> \o SubSeq(sorted, k + 1, Len(sorted))
      f[i \in 0..Len(es)] == IF i = 0 THEN <<>> ELSE Insert(f[i - 1], es[i])
  IN f[Len(es)]

\* topHashtags: the ten most frequent entries.
TopHashtags(ps) ==
  Take(SortByCount(CountOccurrences(FlatHashtags(ps))), TOP_HASHTAGS)

\* createTrendAnalysis: hashtags: hashtags.slice(0, 10)
TrendAnalysisHashtags(ps) == Take(FlatHashtags(ps), TOP_HASHTAGS)

\* createAITrendAnalysis: hashtags: topHashtags.map(h => h.hashtag)
AITrendAnalysisHashtags(ps) ==
  LET top == TopHashtags(ps) IN [i \in 1..Len(top) |-> top[i].tag]

\* The groups of the exploration: 1 to MaxTagPosts distinct posts of the pool.
TagGroups == {o \in PostOrders : Len(o) \in 1..MaxTagPosts}

TagIdle ==
  /\ tagPosts = <<>>
  /\ tagsDone = {}
  /\ analysisHashtags = <<>>
  /\ aiAnalysisHashtags = <<>>

TagInit ==
  /\ \E o \in TagGroups : tagPosts = [i \in DOMAIN o |-> PostPool[o[i]]]
  /\ tagsDone = {}
  /\ analysisHashtags = <<>>
  /\ aiAnalysisHashtags = <<>>

\* analyzeTrends builds the analysis of the group.
BuildTrendAnalysis ==
  /\ "trend" \notin tagsDone
  /\ analysisHashtags' = TrendAnalysisHashtags(tagPosts)
  /\ tagsDone' = tagsDone \cup {"trend"}
  /\ UNCHANGED <<tagPosts, aiAnalysisHashtags>>

\* The AI analysis route builds the analysis of the group.
BuildAITrendAnalysis ==
  /\ "ai" \notin tagsDone
  /\ aiAnalysisHashtags' = AITrendAnalysisHashtags(tagPosts)
  /\ tagsDone' = tagsDone \cup {"ai"}
  /\ UNCHANGED <<tagPosts, analysisHashtags>>

(***************************************************************************)
(* GET /api/trending/dashboard and the UpdateTimer of the dashboard page   *)
(***************************************************************************)
DASHBOARD_UPDATE_INTERVAL == 600000    \* 10 * 60 * 1000
TIMER_UPDATE_INTERVAL == 86400000      \* 24 * 60 * 60 * 1000

\* nextUpdateTime of the response, null (-1) without a last discovery.
NextUpdateTime(last) ==
  IF last = -1 THEN -1 ELSE last + DASHBOARD_UPDATE_INTERVAL

ReadyToUpdate == [hours |-> 0, minutes |-> 0, seconds |-> 0, canUpdate |-> TRUE]

\* updateTimer: the time left to lastUpdateTime + 24 hours.
UpdateTimerState(lastUpdateTime, nowMs) ==
  IF lastUpdateTime = -1 THEN ReadyToUpdate
  ELSE LET timeDiff == lastUpdateTime + TIMER_UPDATE_INTERVAL - nowMs
       IN IF timeDiff <= 0 THEN ReadyToUpdate
          ELSE [hours |-> timeDiff \div 3600000,
                minutes |-> (timeDiff % 3600000) \div 60000,
                seconds |-> (timeDiff % 60000) \div 1000,
                canUpdate |-> FALSE]

DashIdle ==
  /\ lastDiscoveryTime = -1
  /\ nextUpdateTime = -1
  /\ timeLeft = ReadyToUpdate
  /\ timerAt = -1

\* The page loads the dashboard: the response carries the newest
\* discovered_at and nextUpdateTime, the page keeps lastDiscoveryTime, and
\* UpdateTimer's effect runs updateTimer when its lastUpdateTime changed.
DashboardGet ==
  LET last == GetLastDiscoveryTime(trending_posts)
  IN /\ lastDiscoveryTime' = last
     /\ nextUpdateTime' = NextUpdateTime(last)
     /\ IF last # lastDiscoveryTime
        THEN /\ timeLeft' = UpdateTimerState(last, wall)
             /\ timerAt' = wall
        ELSE UNCHANGED <<timeLeft, timerAt>>

\* setInterval(updateTimer, 1000)
UpdateTimerTick ==
  /\ timeLeft' = UpdateTimerState(lastDiscoveryTime, wall)
  /\ timerAt' = wall
  /\ UNCHANGED <<lastDiscoveryTime, nextUpdateTime>>

(***************************************************************************)
(* Specifications                                                          *)
(***************************************************************************)
\* One fetch task: the page requests of a run are sequential.
SeqEnter == Enter(1, MaxRequests) /\ UNCHANGED <<fetchVars, gateVars, scoreVars, clusterVars, pipeVars, multiVars, storeVars, respVars, aiVars, backoffVars, sentVars, tagVars, dashVars>>
SeqResume == Resume(1) /\ UNCHANGED <<fetchVars, gateVars, scoreVars, clusterVars, pipeVars, multiVars, storeVars, respVars, aiVars, backoffVars, sentVars, tagVars, dashVars>>
SeqTick == Tick(MaxRequests) /\ UNCHANGED <<fetchVars, gateVars, scoreVars, clusterVars, pipeVars, multiVars, storeVars, respVars, aiVars, backoffVars, sentVars, tagVars, dashVars>>
RateNext == SeqEnter \/ SeqResume \/ SeqTick
RateSeqInit == RateInit({1}, Paces) /\ FetchIdle /\ GateIdle /\ ScoreIdle /\ ClusterIdle /\ PipeIdle /\ MultiIdle /\ StoreIdle /\ RespIdle /\ AiIdle /\ BackoffIdle /\ SentIdle /\ TagIdle /\ DashIdle
SpecRate == RateSeqInit /\ [][RateNext]_vars

\* Two fetch tasks of the same source (two discovery requests served by the
\* same process) run checkRateLimit concurrently; they interleave at awaits.
RaceEnter == (\E p \in Tasks : Enter(p, MaxRaceRequests)) /\ UNCHANGED <<fetchVars, gateVars, scoreVars, clusterVars, pipeVars, multiVars, storeVars, respVars, aiVars, backoffVars, sentVars, tagVars, dashVars>>
RaceResume == (\E p \in Tasks : Resume(p)) /\ UNCHANGED <<fetchVars, gateVars, scoreVars, clusterVars, pipeVars, multiVars, storeVars, respVars, aiVars, backoffVars, sentVars, tagVars, dashVars>>
RaceTick == Tick(MaxRaceRequests) /\ UNCHANGED <<fetchVars, gateVars, scoreVars, clusterVars, pipeVars, multiVars, storeVars, respVars, aiVars, backoffVars, sentVars, tagVars, dashVars>>
RaceNext == RaceEnter \/ RaceResume \/ RaceTick
RaceInit == RateInit(Tasks, RacePaces) /\ FetchIdle /\ GateIdle /\ ScoreIdle /\ ClusterIdle /\ PipeIdle /\ MultiIdle /\ StoreIdle /\ RespIdle /\ AiIdle /\ BackoffIdle /\ SentIdle /\ TagIdle /\ DashIdle
SpecRace == RaceInit /\ [][RaceNext]_vars

\* One invocation of fetchMaxViralPosts against a source that may answer
\* anything to each page request.
PageCall == (\E m \in MaxItemsChoices : FetchCall(m)) /\ UNCHANGED <<rateVars, gateVars, scoreVars, clusterVars, pipeVars, multiVars, storeVars, respVars, aiVars, backoffVars, sentVars, tagVars, dashVars>>
PageAdmitted == RateLimitAdmits /\ UNCHANGED <<rateVars, gateVars, scoreVars, clusterVars, pipeVars, multiVars, storeVars, respVars, aiVars, backoffVars, sentVars, tagVars, dashVars>>
Page429 == Respond429 /\ UNCHANGED <<rateVars, gateVars, scoreVars, clusterVars, pipeVars, multiVars, storeVars, respVars, aiVars, backoffVars, sentVars, tagVars, dashVars>>
PageBackoffDone == BackoffDone /\ UNCHANGED <<rateVars, gateVars, scoreVars, clusterVars, pipeVars, multiVars, storeVars, respVars, aiVars, backoffVars, sentVars, tagVars, dashVars>>
PageError == RespondError /\ UNCHANGED <<rateVars, gateVars, scoreVars, clusterVars, pipeVars, multiVars, storeVars, respVars, aiVars, backoffVars, sentVars, tagVars, dashVars>>
PageThrow == RespondThrow /\ UNCHANGED <<rateVars, gateVars, scoreVars, clusterVars, pipeVars, multiVars, storeVars, respVars, aiVars, backoffVars, sentVars, tagVars, dashVars>>
PageOk ==
  /\ \E n \in ChildrenCounts : \E k \in ValidCounts(n) : \E more \in BOOLEAN :
       RespondOk(n, k, more)
  /\ UNCHANGED <<rateVars, gateVars, scoreVars, clusterVars, pipeVars, multiVars, storeVars, respVars, aiVars, backoffVars, sentVars, tagVars, dashVars>>
FetchNext ==
  \/ PageCall \/ PageAdmitted \/ Page429 \/ PageBackoffDone
  \/ PageError \/ PageThrow \/ PageOk
RateIdle == RateInit({}, {0})
FetchInit == RateIdle /\ FetchIdle /\ GateIdle /\ ScoreIdle /\ ClusterIdle /\ PipeIdle /\ MultiIdle /\ StoreIdle /\ RespIdle /\ AiIdle /\ BackoffIdle /\ SentIdle /\ TagIdle /\ DashIdle
SpecFetch == FetchInit /\ [][FetchNext]_vars
\* The event loop runs every continuation that is ready and the source
\* answers every request.
FairSpecFetch == FetchInit /\ [][FetchNext]_vars /\ WF_vars(FetchNext)

\* Discovery triggers that arrive one after the other: a trigger arrives
\* when the handler of the one before has answered.
SeqTrigger ==
  /\ \A q \in Triggers : tpc[q] = "idle"
  /\ TriggerGate(1)
  /\ UNCHANGED <<rateVars, fetchVars, scoreVars, clusterVars, pipeVars, multiVars, storeVars, respVars, aiVars, backoffVars, sentVars, tagVars, dashVars>>
SeqAnswers ==
  (\E ids \in SUBSET Tweets : TwitterAnswers(1, ids))
  /\ UNCHANGED <<rateVars, fetchVars, scoreVars, clusterVars, pipeVars, multiVars, storeVars, respVars, aiVars, backoffVars, sentVars, tagVars, dashVars>>
SeqFails == TwitterFails(1) /\ UNCHANGED <<rateVars, fetchVars, scoreVars, clusterVars, pipeVars, multiVars, storeVars, respVars, aiVars, backoffVars, sentVars, tagVars, dashVars>>
SeqStore == TriggerStore(1) /\ UNCHANGED <<rateVars, fetchVars, scoreVars, clusterVars, pipeVars, multiVars, storeVars, respVars, aiVars, backoffVars, sentVars, tagVars, dashVars>>
GateTick == (\E d \in WallSteps : WallTick(d)) /\ UNCHANGED <<rateVars, fetchVars, scoreVars, clusterVars, pipeVars, multiVars, storeVars, respVars, aiVars, backoffVars, sentVars, tagVars, dashVars>>
GateSeqNext == SeqTrigger \/ SeqAnswers \/ SeqFails \/ SeqStore \/ GateTick
GateSeqInit == RateIdle /\ FetchIdle /\ GateInit /\ ScoreIdle /\ ClusterIdle /\ PipeIdle /\ MultiIdle /\ StoreIdle /\ RespIdle /\ AiIdle /\ BackoffIdle /\ SentIdle /\ TagIdle /\ DashIdle
SpecGateSeq == GateSeqInit /\ [][GateSeqNext]_vars

\* Twitter triggers one after the other, with runs of the Reddit discovery
\* route between them.
RedditStored ==
  (\E ids \in (SUBSET RedditPostIds) \ {{}} : RedditDiscoveryStores(ids))
  /\ UNCHANGED <<rateVars, fetchVars, scoreVars, clusterVars, pipeVars,
                 multiVars, storeVars, respVars, aiVars, backoffVars,
                 sentVars, tagVars, dashVars>>
CrossNext ==
  SeqTrigger \/ SeqAnswers \/ SeqFails \/ SeqStore \/ GateTick \/ RedditStored
CrossInit ==
  /\ RateIdle /\ FetchIdle /\ GateInit /\ ScoreIdle /\ ClusterIdle
  /\ PipeIdle /\ MultiIdle /\ StoreIdle /\ RespIdle /\ AiIdle /\ BackoffIdle
  /\ SentIdle /\ TagIdle /\ DashIdle
SpecCross == CrossInit /\ [][CrossNext]_vars

\* Discovery triggers that may arrive while another one is being handled.
AnyTrigger ==
  (\E q \in Triggers : TriggerGate(q)) /\ UNCHANGED <<rateVars, fetchVars, scoreVars, clusterVars, pipeVars, multiVars, storeVars, respVars, aiVars, backoffVars, sentVars, tagVars, dashVars>>
AnyAnswers ==
  (\E q \in Triggers : \E ids \in SUBSET Tweets : TwitterAnswers(q, ids))
  /\ UNCHANGED <<rateVars, fetchVars, scoreVars, clusterVars, pipeVars, multiVars, storeVars, respVars, aiVars, backoffVars, sentVars, tagVars, dashVars>>
AnyFails ==
  (\E q \in Triggers : TwitterFails(q)) /\ UNCHANGED <<rateVars, fetchVars, scoreVars, clusterVars, pipeVars, multiVars, storeVars, respVars, aiVars, backoffVars, sentVars, tagVars, dashVars>>
AnyStore ==
  (\E q \in Triggers : TriggerStore(q)) /\ UNCHANGED <<rateVars, fetchVars, scoreVars, clusterVars, pipeVars, multiVars, storeVars, respVars, aiVars, backoffVars, sentVars, tagVars, dashVars>>
GateNext == AnyTrigger \/ AnyAnswers \/ AnyFails \/ AnyStore \/ GateTick
GateAnyInit == RateIdle /\ FetchIdle /\ GateInit /\ ScoreIdle /\ ClusterIdle /\ PipeIdle /\ MultiIdle /\ StoreIdle /\ RespIdle /\ AiIdle /\ BackoffIdle /\ SentIdle /\ TagIdle /\ DashIdle
SpecGate == GateAnyInit /\ [][GateNext]_vars

\* The scorers applied to pairs of raw posts.
TwitterScored ==
  ScoreTwitterPair /\ UNCHANGED <<rateVars, fetchVars, gateVars, clusterVars, pipeVars, multiVars, storeVars, respVars, aiVars, backoffVars, sentVars, tagVars, dashVars>>
RedditScored ==
  ScoreRedditPair /\ UNCHANGED <<rateVars, fetchVars, gateVars, clusterVars, pipeVars, multiVars, storeVars, respVars, aiVars, backoffVars, sentVars, tagVars, dashVars>>
ScoreNext == TwitterScored \/ RedditScored
ScorePairInit ==
  RateIdle /\ FetchIdle /\ GateIdle /\ ScoreInit /\ ClusterIdle /\ PipeIdle /\ MultiIdle /\ StoreIdle /\ RespIdle /\ AiIdle /\ BackoffIdle /\ SentIdle /\ TagIdle /\ DashIdle
SpecScore == ScorePairInit /\ [][ScoreNext]_vars

\* One raw post scored at two moments.
ScoreRest ==
  UNCHANGED <<rateVars, fetchVars, gateVars, clusterVars, pipeVars, multiVars,
              storeVars, respVars, aiVars, backoffVars, sentVars, tagVars, dashVars>>
ScoredOnce == ScoreOnce /\ ScoreRest
ScoredAgain == (\E later \in RescoreDelays : ScoreAgain(later)) /\ ScoreRest
RescoreNext == ScoredOnce \/ ScoredAgain
RescorePostInit ==
  /\ RateIdle /\ FetchIdle /\ GateIdle /\ RescoreInit /\ ClusterIdle
  /\ PipeIdle /\ MultiIdle /\ StoreIdle /\ RespIdle /\ AiIdle /\ BackoffIdle
  /\ SentIdle /\ TagIdle /\ DashIdle
SpecRescore == RescorePostInit /\ [][RescoreNext]_vars

\* The two clusterers applied to an ordering of posts.
TrendsClustered ==
  ClusterTrends /\ UNCHANGED <<rateVars, fetchVars, gateVars, scoreVars, pipeVars, multiVars, storeVars, respVars, aiVars, backoffVars, sentVars, tagVars, dashVars>>
AIClustered ==
  ClusterForAI /\ UNCHANGED <<rateVars, fetchVars, gateVars, scoreVars, pipeVars, multiVars, storeVars, respVars, aiVars, backoffVars, sentVars, tagVars, dashVars>>
ClusterNext == TrendsClustered \/ AIClustered
ClusterPostsInit ==
  RateIdle /\ FetchIdle /\ GateIdle /\ ScoreIdle /\ ClusterInit /\ PipeIdle /\ MultiIdle /\ StoreIdle /\ RespIdle /\ AiIdle /\ BackoffIdle /\ SentIdle /\ TagIdle /\ DashIdle
SpecCluster == ClusterPostsInit /\ [][ClusterNext]_vars

\* The Reddit discovery route run twice on one raw batch.
OtherGateVars == <<wall, tpc, fetched, outcome, triggers, twitterRequests>>
PipeRest ==
  UNCHANGED <<rateVars, fetchVars, OtherGateVars, scoreVars, clusterVars,
              multiVars, storeVars, respVars, aiVars, backoffVars, sentVars, tagVars, dashVars>>
PassFetch == PipeFetch /\ PipeRest
PassNone == PipeNone /\ PipeRest
PassStore == PipeStore /\ PipeRest
PassRespond == PipeRespond /\ PipeRest
PipeNext == PassFetch \/ PassNone \/ PassStore \/ PassRespond
PipeBatchInit ==
  /\ RateIdle /\ FetchIdle /\ GateIdle /\ ScoreIdle /\ ClusterIdle
  /\ PipeInit /\ MultiIdle /\ StoreIdle /\ RespIdle /\ AiIdle /\ BackoffIdle /\ SentIdle /\ TagIdle /\ DashIdle
SpecPipe == PipeBatchInit /\ [][PipeNext]_vars

\* One pass of fetchMultiViralContent; each subreddit may answer anything
\* to each page request.
OtherVars ==
  <<rateVars, gateVars, scoreVars, clusterVars, pipeVars, storeVars,
    respVars, aiVars, backoffVars, sentVars, tagVars, dashVars>>
SourceCall == (\E m \in MultiMaxItems : MultiFetch(m)) /\ UNCHANGED OtherVars
SourceAdmitted ==
  mpc = "loop" /\ RateLimitAdmits /\ UNCHANGED <<OtherVars, multiVars>>
Source429 == mpc = "loop" /\ Respond429 /\ UNCHANGED <<OtherVars, multiVars>>
SourceBackoffDone ==
  mpc = "loop" /\ BackoffDone /\ UNCHANGED <<OtherVars, multiVars>>
SourceError ==
  (\E status \in ErrorStatuses : MultiPageError(status)) /\ UNCHANGED OtherVars
SourceThrow ==
  mpc = "loop" /\ RespondThrow /\ UNCHANGED <<OtherVars, multiVars>>
SourceOk ==
  /\ mpc = "loop"
  /\ \E n \in ChildrenCounts : \E k \in ValidCounts(n) : \E more \in BOOLEAN :
       RespondOk(n, k, more)
  /\ UNCHANGED <<OtherVars, multiVars>>
SourceCollected == MultiCollect /\ UNCHANGED OtherVars
SourceCaught == MultiCatch /\ UNCHANGED OtherVars
PassReturned == MultiReturn /\ UNCHANGED OtherVars
RouteResponded ==
  (\E dbUp \in BOOLEAN : RouteResponds(dbUp)) /\ UNCHANGED OtherVars
MultiNext ==
  \/ SourceCall \/ SourceAdmitted \/ Source429 \/ SourceBackoffDone
  \/ SourceError \/ SourceThrow \/ SourceOk
  \/ SourceCollected \/ SourceCaught \/ PassReturned \/ RouteResponded
MultiPassInit ==
  /\ RateIdle /\ FetchIdle /\ GateIdle /\ ScoreIdle /\ ClusterIdle
  /\ PipeIdle /\ MultiInit /\ StoreIdle /\ RespIdle /\ AiIdle /\ BackoffIdle /\ SentIdle /\ TagIdle /\ DashIdle
SpecMulti == MultiPassInit /\ [][MultiNext]_vars
\* The event loop runs every continuation that is ready and the source
\* answers every request.
FairSpecMulti == MultiPassInit /\ [][MultiNext]_vars /\ WF_vars(MultiNext)

\* Discovery runs of either platform storing what they found, one after
\* the other.
StoreRest ==
  UNCHANGED <<rateVars, fetchVars, OtherGateVars, scoreVars, clusterVars,
              pipeVars, multiVars, respVars, aiVars, backoffVars, sentVars, tagVars, dashVars>>
RunStores ==
  /\ \E pf \in StorePlatforms : \E b \in StoreBatches(pf) : StoreBegin(pf, b)
  /\ StoreRest
PostUpserted == StoreUpsert /\ StoreRest
StoreNext == RunStores \/ PostUpserted
StoreRunsInit ==
  /\ RateIdle /\ FetchIdle /\ GateIdle /\ ScoreIdle /\ ClusterIdle
  /\ PipeIdle /\ MultiIdle /\ StoreInit /\ RespIdle /\ AiIdle /\ BackoffIdle /\ SentIdle /\ TagIdle /\ DashIdle
SpecStore == StoreRunsInit /\ [][StoreNext]_vars

\* Triggers of either Twitter route, one after the other, against a Twitter
\* API that may answer anything.
RespRest ==
  UNCHANGED <<rateVars, fetchVars, scoreVars, clusterVars, pipeVars,
              multiVars, storeVars, aiVars, backoffVars, sentVars, tagVars, dashVars>>
TriggerHandled ==
  /\ \E r \in Routes : HandleTrigger(r)
  /\ UNCHANGED OtherGateVars
  /\ RespRest
TwitterResponded ==
  /\ \E ans \in TwitterAnswerSet : TwitterResponds(ans)
  /\ UNCHANGED OtherGateVars
  /\ RespRest
RespTick ==
  /\ hpc = "idle"
  /\ \E d \in WallSteps : WallTick(d)
  /\ UNCHANGED respVars
  /\ RespRest
RespNext == TriggerHandled \/ TwitterResponded \/ RespTick
RespRoutesInit ==
  /\ RateIdle /\ FetchIdle /\ GateInit /\ ScoreIdle /\ ClusterIdle
  /\ PipeIdle /\ MultiIdle /\ StoreIdle /\ RespInit /\ AiIdle /\ BackoffIdle /\ SentIdle /\ TagIdle /\ DashIdle
SpecResp == RespRoutesInit /\ [][RespNext]_vars

\* One analysis pass against an AI service that may answer anything.
AiRest ==
  UNCHANGED <<rateVars, fetchVars, gateVars, scoreVars, clusterVars,
              pipeVars, multiVars, storeVars, respVars, backoffVars, sentVars, tagVars, dashVars>>
GroupStarted == CreateTrendAnalysis /\ AiRest
HealthSettled == (\E h \in HealthAnswers : HealthSettles(h)) /\ AiRest
AnalyzeSettled == (\E ans \in AnalyzeAnswers : AnalyzeSettles(ans)) /\ AiRest
PassDone == AnalyzeTrendsReturns /\ AiRest
AiNext == GroupStarted \/ HealthSettled \/ AnalyzeSettled \/ PassDone
AiPassInit ==
  /\ RateIdle /\ FetchIdle /\ GateIdle /\ ScoreIdle /\ ClusterIdle
  /\ PipeIdle /\ MultiIdle /\ StoreIdle /\ RespIdle /\ AiInit /\ BackoffIdle /\ SentIdle /\ TagIdle /\ DashIdle
SpecAi == AiPassInit /\ [][AiNext]_vars
\* The event loop runs the continuations of the pass; no timer belongs to a
\* fetch of AIAnalysisService, so nothing makes a pending fetch settle.
FairSpecAi ==
  AiPassInit /\ [][AiNext]_vars /\ WF_vars(GroupStarted) /\ WF_vars(PassDone)

\* One fetchMaxViralPosts invocation long enough for the backoff delay to
\* reach its cap, with the delays it applies recorded.
BackoffMaxItems == {50, 600}
BackoffRest ==
  UNCHANGED <<rateVars, gateVars, scoreVars, clusterVars, pipeVars,
              multiVars, storeVars, respVars, aiVars, sentVars, tagVars, dashVars>>
DelayCall ==
  /\ \E m \in BackoffMaxItems : FetchCall(m)
  /\ prevDelay' = 0
  /\ lastDelay' = 0
  /\ BackoffRest
DelayAdmitted == RateLimitAdmits /\ UNCHANGED backoffVars /\ BackoffRest
Delay429 ==
  /\ Respond429
  /\ prevDelay' = lastDelay
  /\ lastDelay' = backoffTime'
  /\ BackoffRest
DelayDone == BackoffDone /\ UNCHANGED backoffVars /\ BackoffRest
DelayError == RespondError /\ UNCHANGED backoffVars /\ BackoffRest
DelayThrow == RespondThrow /\ UNCHANGED backoffVars /\ BackoffRest
DelayOk ==
  /\ \E n \in ChildrenCounts : \E more \in BOOLEAN : RespondOk(n, n, more)
  /\ UNCHANGED backoffVars
  /\ BackoffRest
BackoffNext ==
  \/ DelayCall \/ DelayAdmitted \/ Delay429 \/ DelayDone
  \/ DelayError \/ DelayThrow \/ DelayOk
BackoffRunInit ==
  /\ RateIdle /\ FetchIdle /\ GateIdle /\ ScoreIdle /\ ClusterIdle
  /\ PipeIdle /\ MultiIdle /\ StoreIdle /\ RespIdle /\ AiIdle /\ BackoffIdle /\ SentIdle /\ TagIdle /\ DashIdle
SpecBackoff == BackoffRunInit /\ [][BackoffNext]_vars

\* A sequential run long enough, at a page fetch time of half a second, for
\* a call to find the one-minute and the ten-minute window full at once.
MaxLongRequests == 1100
LongRunPaces == {500, 590}
LongRest ==
  UNCHANGED <<fetchVars, gateVars, scoreVars, clusterVars, pipeVars,
              multiVars, storeVars, respVars, aiVars, backoffVars, sentVars, tagVars, dashVars>>
LongEnter == Enter(1, MaxLongRequests) /\ LongRest
LongResume == Resume(1) /\ LongRest
LongTick == Tick(MaxLongRequests) /\ LongRest
RateLongNext == LongEnter \/ LongResume \/ LongTick
RateLongInit ==
  /\ RateInit({1}, LongRunPaces) /\ FetchIdle /\ GateIdle /\ ScoreIdle
  /\ ClusterIdle /\ PipeIdle /\ MultiIdle /\ StoreIdle /\ RespIdle /\ AiIdle
  /\ BackoffIdle /\ SentIdle /\ TagIdle /\ DashIdle
SpecRateLong == RateLongInit /\ [][RateLongNext]_vars

\* The sentiment distribution of one group.
SentRest ==
  UNCHANGED <<rateVars, fetchVars, gateVars, scoreVars, clusterVars,
              pipeVars, multiVars, storeVars, respVars, aiVars, backoffVars,
              tagVars, dashVars>>
DistributionComputed == SentimentCalculated /\ SentRest
SentNext == DistributionComputed
SentGroupInit ==
  /\ RateIdle /\ FetchIdle /\ GateIdle /\ ScoreIdle /\ ClusterIdle
  /\ PipeIdle /\ MultiIdle /\ StoreIdle /\ RespIdle /\ AiIdle /\ BackoffIdle
  /\ SentInit /\ TagIdle /\ DashIdle
SpecSent == SentGroupInit /\ [][SentNext]_vars

\* The hashtag lists of the two analyses of one group.
TagRest ==
  UNCHANGED <<rateVars, fetchVars, gateVars, scoreVars, clusterVars,
              pipeVars, multiVars, storeVars, respVars, aiVars, backoffVars,
              sentVars, dashVars>>
TrendAnalysisBuilt == BuildTrendAnalysis /\ TagRest
AITrendAnalysisBuilt == BuildAITrendAnalysis /\ TagRest
TagNext == TrendAnalysisBuilt \/ AITrendAnalysisBuilt
TagGroupInit ==
  /\ RateIdle /\ FetchIdle /\ GateIdle /\ ScoreIdle /\ ClusterIdle
  /\ PipeIdle /\ MultiIdle /\ StoreIdle /\ RespIdle /\ AiIdle /\ BackoffIdle
  /\ SentIdle /\ TagInit /\ DashIdle
SpecTag == TagGroupInit /\ [][TagNext]_vars

\* Twitter triggers one after the other, with the dashboard page open.
DashRest ==
  UNCHANGED <<rateVars, fetchVars, scoreVars, clusterVars, pipeVars,
              multiVars, storeVars, respVars, aiVars, backoffVars, sentVars,
              tagVars>>
DashboardGot == DashboardGet /\ UNCHANGED gateVars /\ DashRest
TimerTicked == UpdateTimerTick /\ UNCHANGED gateVars /\ DashRest
DashNext ==
  \/ SeqTrigger \/ SeqAnswers \/ SeqFails \/ SeqStore \/ GateTick
  \/ DashboardGot \/ TimerTicked
DashPageInit ==
  /\ RateIdle /\ FetchIdle /\ GateInit /\ ScoreIdle /\ ClusterIdle
  /\ PipeIdle /\ MultiIdle /\ StoreIdle /\ RespIdle /\ AiIdle /\ BackoffIdle
  /\ SentIdle /\ TagIdle /\ DashIdle
SpecDash == DashPageInit /\ [][DashNext]_vars

(***************************************************************************)
(* Claims                                                                  *)
(***************************************************************************)
\* Requests admitted in the window of length w that ends at the latest one.
InWindow(log, w) ==
  Cardinality({i \in DOMAIN log : log[Len(log)] - log[i] < w})

\* C1: sequential acquisitions never admit more than 100 requests inside a
\* 60-second window nor more than 996 inside a 10-minute window.  Every
\* admitted request is the latest one in the state that follows its
\* admission, so the windows ending at the latest request cover all windows.
RateCeilingNeverExceeded ==
  admitted # <<>> =>
    /\ InWindow(admitted, ONE_MINUTE) <= MAX_REQUESTS_PER_MINUTE
    /\ InWindow(admitted, TEN_MINUTES) <= MAX_REQUESTS_PER_10_MIN

\* C1 witness: the latest admitted request fills both windows to the brim.
RateCeilingReached ==
  /\ admitted # <<>>
  /\ InWindow(admitted, ONE_MINUTE) = MAX_REQUESTS_PER_MINUTE
  /\ InWindow(admitted, TEN_MINUTES) = MAX_REQUESTS_PER_10_MIN

\* C8: with two tasks of one source in checkRateLimit at the same time the
\* admitted requests inside a rolling window still stay within its ceiling.
SerializedRateCeiling ==
  \A i \in DOMAIN admitted :
    /\ Cardinality({j \in 1..i : admitted[i] - admitted[j] < ONE_MINUTE})
         <= MAX_REQUESTS_PER_MINUTE
    /\ Cardinality({j \in 1..i : admitted[i] - admitted[j] < TEN_MINUTES})
         <= MAX_REQUESTS_PER_10_MIN

\* C2: a page request that keeps failing with 429 is abandoned after a
\* bounded number of retries: the invocation eventually returns (or throws).
FetchAbandonsAfterBoundedRetries == <>(fpc \in {"returned", "thrown"})

\* C10: an invocation with maxItems >= 1 returns at most maxItems posts.
ReturnsAtMostMaxItems ==
  (fpc = "returned" /\ maxItems >= 1) => returned <= maxItems

\* C3: consecutive requests to the quota-limited source are at least 15
\* minutes apart, whatever the sequence of discovery triggers.
TwitterRequestsSpaced ==
  \A i \in DOMAIN twitterRequests :
    i > 1 => twitterRequests[i] - twitterRequests[i - 1]
               >= MIN_DISCOVERY_INTERVAL

\* C9: of two triggers at most one is past the gate at any time; the runs
\* against the quota-limited source do not overlap.
DiscoveryRunsDoNotOverlap ==
  Cardinality({q \in Triggers : tpc[q] \in {"fetch", "store"}}) <= 1

Assignment(gs) ==
  {<<gs[i].key, {gs[i].posts[j].id : j \in 1..Len(gs[i].posts)}>> :
     i \in 1..Len(gs)}

\* The same posts in ascending order of id.
ById(ps) ==
  LET ids == {ps[i].id : i \in 1..Len(ps)}
      f[i \in 0..Len(ps)] ==
        IF i = 0 THEN <<>>
        ELSE Append(f[i - 1],
                    PostPool[CHOOSE d \in ids :
                               Cardinality({e \in ids : e < d}) = i - 1])
  IN f[Len(ps)]

\* C6: groupPostsByTrends assigns the same keys with the same members to a
\* post set whatever the order its posts arrive in, also on the fallback
\* path: the result for any ordering equals the result for the ordering by id.
ClusteringIgnoresInputOrder ==
  trendsDone => Assignment(groups) = Assignment(GroupPostsByTrends(ById(posts)))

\* C7: given at least one post, groupPostsByTrends and
\* groupPostsForAIAnalysis each return at least one group.
NonEmptyFallback ==
  /\ (trendsDone /\ Len(posts) > 0) => Len(groups) > 0
  /\ (aiDone /\ Len(posts) > 0) => Len(aiGroups) > 0

\* C7 witness: both clusterers ran on posts of which no two share a key, so
\* no group reaches the minimum size, and both still returned groups.
FallbackGroupsReturned ==
  /\ trendsDone /\ aiDone
  /\ Len(posts) > FALLBACK_GROUPS
  /\ FilterGroups(GroupByTrendKey(posts), MIN_TREND_GROUP) = <<>>
  /\ FilterGroups(GroupByAIKey(posts), MIN_AI_GROUP) = <<>>
  /\ Len(groups) = FALLBACK_GROUPS
  /\ Len(aiGroups) = FALLBACK_GROUPS

\* C4: two passes of the discovery route over the same raw batch accept the
\* same set of posts, and the second pass, whose posts the first pass
\* stored, reports zero new posts.
SecondPassReportsNothingNew ==
  Len(accepted) = 2 =>
    /\ accepted[2] = accepted[1]
    /\ reported[2] = 0

\* C11: in a pass over several subreddits, whatever failure an earlier
\* subreddit produced, the fetch of every subreddit of the list is
\* eventually started.
LaterSourcesStillFetched == <>(started = 1..NumSubreddits)

\* C12: after any sequence of discovery runs every stored post has exactly
\* one row, and that row carries the counters of its latest discovery.
OneRowWithLatestCounters ==
  storeQueue = <<>> =>
    \A i \in offered :
      LET rows == RowsOf(trending_posts, i[1], i[2])
      IN rows # {} =>
           /\ Cardinality(rows) = 1
           /\ \A r \in rows : r.likes = latestLikes[i]

DeferredCarriesRetryAfter ==
  (hpc = "idle" /\ cause \in {"gate", "rate", "quota"}) =>
    response.retryAt # -1

\* What a response tells its reader about quota and rate limit.
ReportedAs(resp) ==
  IF resp.info = "monthlyLimitInfo"
     \/ (resp.info = "error" /\ resp.details = MSG_MONTHLY)
  THEN "quota"
  ELSE IF resp.info = "rateLimitInfo"
          \/ (resp.info = "error" /\ resp.details = MSG_RATE)
  THEN "rate"
  ELSE "other"

\* C15: a run stopped by the exhausted monthly quota is reported as quota
\* exhaustion and a run stopped by a rate limit is reported as a rate limit,
\* never one as the other.
QuotaToldFromRateLimit ==
  hpc = "idle" =>
    /\ cause = "quota" => ReportedAs(response) = "quota"
    /\ cause = "rate" => ReportedAs(response) = "rate"

\* C15 witness: the gated route answered a monthly usage cap with its
\* monthlyLimitInfo response.
QuotaExhaustionReported ==
  /\ hpc = "idle"
  /\ hroute = "gated"
  /\ cause = "quota"
  /\ response.status = 429
  /\ response.info = "monthlyLimitInfo"

\* C16: the Reddit route does not answer success: true for a run in which
\* the fetch of a subreddit was cut short by an HTTP error, nor for a run in
\* which every write to the store failed.
NoSuccessAfterFailure ==
  routeSuccess = "true" =>
    /\ \A f \in failures : f.kind # "http"
    /\ ~writesFailed

\* C17: an authentication failure (401 or 403) from Reddit ends the pass as a
\* failure: no later subreddit is fetched after it and the route does not
\* answer success: true.
AuthFailureIsFatal ==
  \A f \in failures :
    f.status \in AuthStatuses =>
      /\ \A i \in started : i <= f.sub
      /\ routeSuccess # "true"

\* C18: when the AI service is unavailable, not healthy or answers
\* /analyze-posts with an error, the group still gets a TrendAnalysis, and
\* its title and description are the ones computed locally from the key and
\* the posts; and the pass ends with one analysis per group.
CollaboratorFailed(i) ==
  \/ healthSeen[i] # "healthy"
  \/ analyzeSeen[i].kind \in {"reject", "notok", "badjson"}
LocalTitles(g) ==
  {GenerateFallbackTrendTitle(g.key, g.posts), CatchTitle(g.key)}
LocalDescriptions(g) ==
  {GenerateFallbackDescription(g.posts), CatchDescription(g.posts)}
FallbackIsLocal ==
  /\ Len(analyses) = groupIndex - 1
  /\ apc = "done" => Len(analyses) = Len(trendGroups)
  /\ \A i \in 1..Len(analyses) :
       CollaboratorFailed(i) =>
         /\ analyses[i].key = trendGroups[i].key
         /\ analyses[i].trend_title \in LocalTitles(trendGroups[i])
         /\ analyses[i].trend_description \in LocalDescriptions(trendGroups[i])
FallbackUsed ==
  /\ apc = "done"
  /\ \E i, j \in 1..Len(analyses) :
       /\ healthSeen[i] = "degraded"
       /\ analyses[i].trend_title =
            GenerateFallbackTrendTitle(trendGroups[i].key, trendGroups[i].posts)
       /\ analyzeSeen[j].kind = "notok"
       /\ analyses[j].trend_title = CatchTitle(trendGroups[j].key)

\* C19: a pass always completes, even if the AI service accepts a request
\* and never answers it.
PassAlwaysCompletes == <>(apc = "done")

\* C20: within one fetchMaxViralPosts invocation the i-th successful page
\* was requested with the cursor the (i-1)-th returned (none for the first),
\* the request in hand carries the cursor of the most recent successful
\* page, and a 429 with its backoff changes neither the cursor nor the page
\* nor the pages collected.
CursorOrder ==
  /\ \A i \in 1..Len(allPosts) : allPosts[i].cursor = i - 1
  /\ fpc \in {"rate", "fetch", "backoff"} => after = Len(allPosts)
RetrySamePage ==
  (fpc = "backoff" \/ (fpc = "fetch" /\ fpc' = "backoff")) =>
    /\ after' = after
    /\ page' = page
    /\ allPosts' = allPosts
PagesInCursorOrder == []CursorOrder /\ [][RetrySamePage]_vars
RetryAfterTwoPages ==
  /\ fpc = "backoff"
  /\ Len(allPosts) = 2
  /\ allPosts[2].cursor = 1
  /\ after = 2

\* C21: the backoff delays fetchMaxViralPosts applies in one invocation never
\* decrease from one to the next, and none is above 30 seconds.
BackoffNonDecreasingAndCapped ==
  /\ prevDelay <= lastDelay
  /\ lastDelay <= BACKOFF_CAP
BackoffReachedCap ==
  /\ fpc = "backoff"
  /\ 0 < prevDelay
  /\ prevDelay < lastDelay
  /\ lastDelay = BACKOFF_CAP

\* C22: a page request answered with a 5xx status, or one whose fetch
\* rejects, is followed by a backoff and a retry of the same page, as a 429
\* is.
TransientErrorStep ==
  \/ fpc = "fetch" /\ fpc' = "thrown"
  \/ \E f \in failures' \ failures : f.kind = "http" /\ f.status >= 500
TransientErrorsRetried ==
  [][TransientErrorStep =>
       (fpc' = "backoff" /\ page' = page /\ after' = after)]_vars

\* C23: when the fetch of a subreddit ends, by a return or by an exception,
\* the posts of the pages it had fetched successfully are added to the
\* multi-source result.
SourceEnds == mpc = "loop" /\ fpc \in {"returned", "thrown"} /\ fpc' = "idle"
PartialResultsKept ==
  [][SourceEnds => multiPosts' = multiPosts + TotalPosts(allPosts)]_vars

\* C24: a call of checkRateLimit that waits for a rolling window wakes when
\* the oldest request inside the violated window leaves it: at that time for
\* the one-minute window, and no later than that time for the ten-minute
\* window, also when the call has waited for the one-minute window before.
OldestInWindow(ts, t, window) ==
  LET inside == {ts[i] : i \in {j \in DOMAIN ts : t - ts[j] < window}}
  IN CHOOSE x \in inside : \A y \in inside : x <= y
WaitEndsAtWindowExpiry ==
  \A p \in Tasks :
    /\ pc[p] = "wait1" =>
         wakeAt[p] =
           OldestInWindow(requestTimestamps, now[p], ONE_MINUTE) + ONE_MINUTE
    /\ pc[p] = "wait2" =>
         wakeAt[p] <=
           OldestInWindow(requestTimestamps, now[p], TEN_MINUTES)
             + TEN_MINUTES

\* C25: groupPostsByTrends returns whole groups, each key once; if some key
\* has at least 2 posts it returns exactly the keys with at least 2 posts,
\* and otherwise the 5 largest groups (all of them if there are fewer).
TrendKeys == {TrendKey(posts[i]) : i \in DOMAIN posts}
KeySize(k) == Cardinality({i \in DOMAIN posts : TrendKey(posts[i]) = k})
ReturnedKeys == {groups[i].key : i \in DOMAIN groups}
SentimentIsProbabilityVector ==
  (sentiment_distribution.computed /\ Len(sentiments) > 0) =>
    LET d == sentiment_distribution
    IN /\ \A x \in {d.positive, d.negative, d.neutral} :
            0 <= x.num /\ x.num <= x.den
       /\ d.positive.den = d.negative.den
       /\ d.negative.den = d.neutral.den
       /\ d.positive.num + d.negative.num + d.neutral.num = d.positive.den

\* C27: the hashtag list of an analysis holds no hashtag twice, lists the
\* hashtags by descending frequency in the group, holds at most 10 of them,
\* and no hashtag left out is more frequent than one that is in.
TagFrequency(tag) ==
  LET all == FlatHashtags(tagPosts)
  IN Cardinality({i \in DOMAIN all : all[i] = tag})
GroupTags ==
  LET all == FlatHashtags(tagPosts) IN {all[i] : i \in DOMAIN all}
RankedTopK(list) ==
  LET listed == {list[i] : i \in DOMAIN list}
  IN /\ Cardinality(listed) = Len(list)
     /\ listed \subseteq GroupTags
     /\ Len(list) = Min(TOP_HASHTAGS, Cardinality(GroupTags))
     /\ \A i, j \in DOMAIN list :
          i < j => TagFrequency(list[i]) >= TagFrequency(list[j])
     /\ \A tag \in listed : \A other \in GroupTags \ listed :
          TagFrequency(tag) >= TagFrequency(other)
HashtagsRankedByFrequency ==
  /\ "trend" \in tagsDone => RankedTopK(analysisHashtags)
  /\ "ai" \in tagsDone => RankedTopK(aiAnalysisHashtags)

TwitterRows(table) == {r \in table : r.platform = "twitter"}
NoCrossSourceContention ==
  [][SeqTrigger =>
       ((outcome'[1] = "deferred") <=>
          GateDefers(GetLastDiscoveryTime(TwitterRows(trending_posts)), wall))
    ]_vars

\* C30: while the dashboard's last discovery time is the table's, a trigger
\* at or after the reported nextUpdateTime is not deferred by the gate, and
\* a run of the countdown at a moment the gate would admit a trigger shows
\* "Ready to update".
DashboardCurrent ==
  /\ lastDiscoveryTime # -1
  /\ lastDiscoveryTime = GetLastDiscoveryTime(trending_posts)
TriggerAfterNextUpdate ==
  (SeqTrigger /\ DashboardCurrent /\ wall >= nextUpdateTime)
    => outcome'[1] # "deferred"
ReadyWhenGateAdmits ==
  (TimerTicked /\ DashboardCurrent /\ ~GateDefers(lastDiscoveryTime, wall))
    => timeLeft'.canUpdate
NextUpdateAgreesWithGate ==
  [][TriggerAfterNextUpdate /\ ReadyWhenGateAdmits]_vars

====
